---- MODULE Spec2Model ----
(***************************************************************************)
(* Model of the HyperDbg script engine executor (ScriptEngineCommon.h).    *)
(*                                                                         *)
(* A UINT64 is a tuple of 8 bytes, least significant first, so that the    *)
(* 64-bit width of every operation is kept exactly.                        *)
(***************************************************************************)
EXTENDS Integers, Sequences, FiniteSets, TLC

\* ------------------------------------------------------------------------
\* UINT64 arithmetic (typedef unsigned __int64 UINT64)
\* ------------------------------------------------------------------------

\* Number of bytes of a UINT64.
WordBytes == 8

IsWord(w) == /\ Len(w) = WordBytes
             /\ \A i \in 1..WordBytes : w[i] \in 0..255

\* The UINT64 holding the natural number n (n < 2^31).
U64(n) == << n % 256, (n \div 256) % 256, (n \div 65536) % 256, (n \div 16777216) % 256, 0, 0, 0, 0 >>

Zero == U64(0)

One == U64(1)

AllOnes == << 255, 255, 255, 255, 255, 255, 255, 255 >>

\* 0x8000000000000000
TopBit == << 0, 0, 0, 0, 0, 0, 0, 128 >>

RECURSIVE Pow2(_)
Pow2(k) == IF k = 0 THEN 1 ELSE 2 * Pow2(k - 1)

\* TRUE when the word is below 2^31, so that it fits a model integer.
IsSmall(w) == w[5] = 0 /\ w[6] = 0 /\ w[7] = 0 /\ w[8] = 0 /\ w[4] < 128

\* The natural number held by a small word.
ToNat(w) == w[1] + 256 * w[2] + 65536 * w[3] + 16777216 * w[4]

\* Bit i (0..63) of a word.
Bit(w, i) == (w[(i \div 8) + 1] \div Pow2(i % 8)) % 2

RECURSIVE AddBytes(_, _, _, _)
AddBytes(a, b, i, carry) ==
    IF i > WordBytes THEN << >>
    ELSE LET s == a[i] + b[i] + carry
         IN  << s % 256 >> \o AddBytes(a, b, i + 1, s \div 256)

\* a + b on UINT64 (wraps modulo 2^64).
WAdd(a, b) == AddBytes(a, b, 1, 0)

\* ~a on UINT64.
WNot(a) == << 255 - a[1], 255 - a[2], 255 - a[3], 255 - a[4], 255 - a[5], 255 - a[6], 255 - a[7], 255 - a[8] >>

\* -(INT64)a reassigned to UINT64: two's complement.
WNeg(a) == WAdd(WNot(a), One)

\* a - b on UINT64 (wraps modulo 2^64).
WSub(a, b) == WAdd(a, WNeg(b))

RECURSIVE ColumnSum(_, _, _, _)
ColumnSum(a, b, k, i) ==
    IF i > k THEN 0 ELSE a[i] * b[k + 1 - i] + ColumnSum(a, b, k, i + 1)

RECURSIVE MulBytes(_, _, _, _)
MulBytes(a, b, k, carry) ==
    IF k > WordBytes THEN << >>
    ELSE LET s == ColumnSum(a, b, k, 1) + carry
         IN  << s % 256 >> \o MulBytes(a, b, k + 1, s \div 256)

\* a * b on UINT64 (wraps modulo 2^64).
WMul(a, b) == MulBytes(a, b, 1, 0)

RECURSIVE BitwiseByte(_, _, _, _)
BitwiseByte(f, x, y, n) ==
    IF n = 0 THEN 0
    ELSE LET bx == x % 2
             by == y % 2
             r  == CASE f = "or"  -> IF bx + by > 0 THEN 1 ELSE 0
                    [] f = "xor" -> (bx + by) % 2
                    [] f = "and" -> bx * by
         IN  r + 2 * BitwiseByte(f, x \div 2, y \div 2, n - 1)

Bitwise(f, a, b) == << BitwiseByte(f, a[1], b[1], 8), BitwiseByte(f, a[2], b[2], 8), BitwiseByte(f, a[3], b[3], 8), BitwiseByte(f, a[4], b[4], 8), BitwiseByte(f, a[5], b[5], 8), BitwiseByte(f, a[6], b[6], 8), BitwiseByte(f, a[7], b[7], 8), BitwiseByte(f, a[8], b[8], 8) >>

WOr(a, b) == Bitwise("or", a, b)

WXor(a, b) == Bitwise("xor", a, b)

WAnd(a, b) == Bitwise("and", a, b)

\* Byte i of a word, 0 outside 1..8.
ByteAt(a, i) == IF i \in 1..WordBytes THEN a[i] ELSE 0

\* Byte i of (a >> k), 0 <= k <= 63, zero fill.
ShrByte(a, k, i) == (ByteAt(a, i + (k \div 8)) \div Pow2(k % 8)) + ((ByteAt(a, i + (k \div 8) + 1) * Pow2(8 - (k % 8))) % 256)

\* a >> k on INT64 for 0 <= k <= 63: the top bit is replicated.
WShrSigned(a, k) ==
    IF a[8] < 128 THEN << ShrByte(a, k, 1), ShrByte(a, k, 2), ShrByte(a, k, 3), ShrByte(a, k, 4), ShrByte(a, k, 5), ShrByte(a, k, 6), ShrByte(a, k, 7), ShrByte(a, k, 8) >>
    ELSE WNot(<< ShrByte(WNot(a), k, 1), ShrByte(WNot(a), k, 2), ShrByte(WNot(a), k, 3), ShrByte(WNot(a), k, 4), ShrByte(WNot(a), k, 5), ShrByte(WNot(a), k, 6), ShrByte(WNot(a), k, 7), ShrByte(WNot(a), k, 8) >>)

\* a >> k on UINT64 for 0 <= k <= 63.
WShr(a, k) == << ShrByte(a, k, 1), ShrByte(a, k, 2), ShrByte(a, k, 3), ShrByte(a, k, 4), ShrByte(a, k, 5), ShrByte(a, k, 6), ShrByte(a, k, 7), ShrByte(a, k, 8) >>

\* Byte i of (a << k), 0 <= k <= 63.
ShlByte(a, k, i) == ((ByteAt(a, i - (k \div 8)) * Pow2(k % 8)) % 256) + (ByteAt(a, i - (k \div 8) - 1) \div Pow2(8 - (k % 8)))

\* a << k on UINT64 for 0 <= k <= 63.
WShl(a, k) == << ShlByte(a, k, 1), ShlByte(a, k, 2), ShlByte(a, k, 3), ShlByte(a, k, 4), ShlByte(a, k, 5), ShlByte(a, k, 6), ShlByte(a, k, 7), ShlByte(a, k, 8) >>

RECURSIVE GeqFrom(_, _, _)
GeqFrom(a, b, i) ==
    IF i = 0 THEN TRUE
    ELSE IF a[i] > b[i] THEN TRUE
    ELSE IF a[i] < b[i] THEN FALSE
    ELSE GeqFrom(a, b, i - 1)

\* a >= b on UINT64.
WGeq(a, b) == GeqFrom(a, b, WordBytes)

\* One step of restoring long division: the remainder takes bit i of n,
\* and the quotient gets bit i when the divisor can be subtracted.
DivBit(n, d, i, q, r) ==
    LET top == Bit(r, 63)
        r1  == WAdd(WShl(r, 1), U64(Bit(n, i)))
        ge  == top = 1 \/ WGeq(r1, d)
    IN  IF ge THEN << WAdd(q, WShl(One, i)), WSub(r1, d) >> ELSE << q, r1 >>

\* Restoring long division, one quotient bit per step, from bit 63 down.
RECURSIVE DivStep(_, _, _, _, _)
DivStep(n, d, i, q, r) ==
    IF i < 0 THEN [ quot |-> q, rem |-> r ]
    ELSE CHOOSE result \in { DivStep(n, d, i - 1, step[1], step[2]) : step \in { DivBit(n, d, i, q, r) } } : TRUE

\* a / b on UINT64, b # 0.
WDiv(a, b) == DivStep(a, b, 63, Zero, Zero).quot

\* a % b on UINT64, b # 0.
WMod(a, b) == DivStep(a, b, 63, Zero, Zero).rem

\* ------------------------------------------------------------------------
\* Symbols (PSYMBOL: Type, Value) and the identifiers of
\* ScriptEngineCommonDefinitions.h.  That header fixes the numbers behind the
\* names; the executor only compares them, so the model gives each name of
\* one family a distinct UINT64 and keeps the symbol types as their names.
\* ------------------------------------------------------------------------

SYMBOL_ID_TYPE == "SYMBOL_ID_TYPE"

SYMBOL_NUM_TYPE == "SYMBOL_NUM_TYPE"

SYMBOL_REGISTER_TYPE == "SYMBOL_REGISTER_TYPE"

SYMBOL_PSEUDO_REG_TYPE == "SYMBOL_PSEUDO_REG_TYPE"

SYMBOL_SEMANTIC_RULE_TYPE == "SYMBOL_SEMANTIC_RULE_TYPE"

SYMBOL_TEMP_TYPE == "SYMBOL_TEMP_TYPE"

FUNC_OR == U64(1)

FUNC_XOR == U64(2)

FUNC_AND == U64(3)

FUNC_ASR == U64(4)

FUNC_ASL == U64(5)

FUNC_ADD == U64(6)

FUNC_SUB == U64(7)

FUNC_MUL == U64(8)

FUNC_DIV == U64(9)

FUNC_MOD == U64(10)

FUNC_POI == U64(11)

FUNC_DB == U64(12)

FUNC_DW == U64(13)

FUNC_DQ == U64(14)

FUNC_STR == U64(15)

FUNC_WSTR == U64(16)

FUNC_SIZEOF == U64(17)

FUNC_NOT == U64(18)

FUNC_NEG == U64(19)

FUNC_HI == U64(20)

FUNC_LOW == U64(21)

FUNC_MOV == U64(22)

FUNC_PRINT == U64(23)

REGISTER_RAX == U64(0)

REGISTER_RCX == U64(1)

REGISTER_RDX == U64(2)

REGISTER_RBX == U64(3)

REGISTER_RSP == U64(4)

REGISTER_RBP == U64(5)

REGISTER_RSI == U64(6)

REGISTER_RDI == U64(7)

REGISTER_R8 == U64(8)

REGISTER_R9 == U64(9)

REGISTER_R10 == U64(10)

REGISTER_R11 == U64(11)

REGISTER_R12 == U64(12)

REGISTER_R13 == U64(13)

REGISTER_R14 == U64(14)

REGISTER_R15 == U64(15)

PSEUDO_REGISTER_TID == U64(0)

PSEUDO_REGISTER_PID == U64(1)

\* The sentinel the register switches test and return (0x80000000).
INVALID == << 0, 0, 0, 128, 0, 0, 0, 0 >>

MAX_TEMP_COUNT == 32

MAX_VAR_COUNT == 32

Sym(t, v) == [ Type |-> t, Value |-> v ]

\* ------------------------------------------------------------------------
\* Outcomes of reads and computations.  A read or a computation either
\* yields a value or raises a hardware exception (trap); where C leaves the
\* behaviour undefined the result is a set with more than one member.
\* ------------------------------------------------------------------------

Ret(v) == [ trap |-> FALSE, val |-> v ]

Fault == [ trap |-> TRUE, val |-> Zero ]

\* What a read of storage the program does not own, or a function that ends
\* without a return statement, can hand back.
Unspecified == { Zero, AllOnes }

\* TRUE when the word is an index inside a bank of n slots.
InBank(w, n) == IsSmall(w) /\ ToNat(w) < n

\* ------------------------------------------------------------------------
\* The environment: pseudo registers and the address space
\* ------------------------------------------------------------------------

\* GetCurrentThreadId() / PsGetCurrentThreadId()
ScriptEnginePseudoRegGetTid == U64(4660)

\* GetCurrentProcessId() / PsGetCurrentProcessId()
ScriptEnginePseudoRegGetPid == U64(1000)

\* The one mapped address of the modelled address space.
MappedAddress == U64(4096)

\* The 8 bytes stored there: 0x1122334455667788.
MappedQword == << 136, 119, 102, 85, 68, 51, 34, 17 >>

\* A second mapped address, the value of the register rbp.
SecondAddress == U64(8192)

\* The 8 bytes stored there: 0xFFEEDDCCBBAA9980.
SecondQword == << 128, 153, 170, 187, 204, 221, 238, 255 >>

\* *Address for a PUINT64: a read of 8 bytes, an access violation when the
\* address is not mapped.
Deref(Address) ==
    IF Address = MappedAddress THEN Ret(MappedQword)
    ELSE IF Address = SecondAddress THEN Ret(SecondQword)
    ELSE Fault

\* (WORD)(l)
LOWORD(l) == << l[1], l[2], 0, 0, 0, 0, 0, 0 >>

\* The top 16 bits of the 64-bit value.
HIWORDOfQword(l) == << l[7], l[8], 0, 0, 0, 0, 0, 0 >>

\* (WORD)(((DWORD)(l) >> 16) & 0xFFFF)
HIWORD(l) == << l[3], l[4], 0, 0, 0, 0, 0, 0 >>

ScriptEngineKeywordPoi(Address) == Deref(Address)

ScriptEngineKeywordHi(Address) ==
    LET Result == Deref(Address)
    IN  IF Result.trap THEN Fault ELSE Ret(HIWORD(Result.val))

ScriptEngineKeywordLow(Address) ==
    LET Result == Deref(Address)
    IN  IF Result.trap THEN Fault ELSE Ret(LOWORD(Result.val))

\* BYTE Result = *Address
ScriptEngineKeywordDb(Address) ==
    LET Result == Deref(Address)
    IN  IF Result.trap THEN Fault ELSE Ret(<< Result.val[1], 0, 0, 0, 0, 0, 0, 0 >>)

\* WORD Result = *Address
ScriptEngineKeywordDd(Address) ==
    LET Result == Deref(Address)
    IN  IF Result.trap THEN Fault ELSE Ret(<< Result.val[1], Result.val[2], 0, 0, 0, 0, 0, 0 >>)

\* DWORD Result = *Address
ScriptEngineKeywordDw(Address) ==
    LET Result == Deref(Address)
    IN  IF Result.trap THEN Fault ELSE Ret(<< Result.val[1], Result.val[2], Result.val[3], Result.val[4], 0, 0, 0, 0 >>)

ScriptEngineKeywordDq(Address) == Deref(Address)

\* ------------------------------------------------------------------------
\* Value resolution
\* ------------------------------------------------------------------------

\* The switch has no default: an id that matches no case leaves the function
\* without a return statement.
GetRegValue(Regs, Symbol) ==
    CASE Symbol.Value = REGISTER_RAX -> { Ret(Regs.rax) }
      [] Symbol.Value = REGISTER_RCX -> { Ret(Regs.rcx) }
      [] Symbol.Value = REGISTER_RDX -> { Ret(Regs.rdx) }
      [] Symbol.Value = REGISTER_RBX -> { Ret(Regs.rbx) }
      [] Symbol.Value = REGISTER_RSP -> { Ret(Regs.rsp) }
      [] Symbol.Value = REGISTER_RBP -> { Ret(Regs.rbp) }
      [] Symbol.Value = REGISTER_RSI -> { Ret(Regs.rsi) }
      [] Symbol.Value = REGISTER_RDI -> { Ret(Regs.rdi) }
      [] Symbol.Value = REGISTER_R8 -> { Ret(Regs.r8) }
      [] Symbol.Value = REGISTER_R9 -> { Ret(Regs.r9) }
      [] Symbol.Value = REGISTER_R10 -> { Ret(Regs.r10) }
      [] Symbol.Value = REGISTER_R11 -> { Ret(Regs.r11) }
      [] Symbol.Value = REGISTER_R12 -> { Ret(Regs.r12) }
      [] Symbol.Value = REGISTER_R13 -> { Ret(Regs.r13) }
      [] Symbol.Value = REGISTER_R14 -> { Ret(Regs.r14) }
      [] Symbol.Value = REGISTER_R15 -> { Ret(Regs.r15) }
      [] Symbol.Value = INVALID -> { Ret(INVALID) }
      [] OTHER -> { Ret(u) : u \in Unspecified }

GetPseudoRegValue(Symbol) ==
    CASE Symbol.Value = PSEUDO_REGISTER_TID -> { Ret(ScriptEnginePseudoRegGetTid) }
      [] Symbol.Value = PSEUDO_REGISTER_PID -> { Ret(ScriptEnginePseudoRegGetPid) }
      [] Symbol.Value = INVALID -> { Ret(INVALID) }
      [] OTHER -> { Ret(u) : u \in Unspecified }

\* ReadSlot reading every slot as it was when the bank was reset.
ReadSlotReset(bank, n, Index) == { Ret(Zero) }

\* bank[Index] as C reads it: no bound is checked, so an index outside the
\* bank reads whatever lies there, or faults.
ReadSlot(bank, n, Index) ==
    IF InBank(Index, n) THEN { Ret(bank[ToNat(Index)]) }
    ELSE { Ret(u) : u \in Unspecified } \cup { Fault }

\* The switch has no default: a type that matches no case leaves the
\* function without a return statement.
GetValue(Regs, TempList, VariableList, Symbol) ==
    CASE Symbol.Type = SYMBOL_ID_TYPE -> ReadSlot(VariableList, MAX_VAR_COUNT, Symbol.Value)
      [] Symbol.Type = SYMBOL_NUM_TYPE -> { Ret(Symbol.Value) }
      [] Symbol.Type = SYMBOL_REGISTER_TYPE -> GetRegValue(Regs, Symbol)
      [] Symbol.Type = SYMBOL_PSEUDO_REG_TYPE -> GetPseudoRegValue(Symbol)
      [] Symbol.Type = SYMBOL_TEMP_TYPE -> ReadSlot(TempList, MAX_TEMP_COUNT, Symbol.Value)
      [] OTHER -> { Ret(u) : u \in Unspecified }

\* The memory a call can change: both banks and the register snapshot, and
\* whether a write went outside the bank it was aimed at (wild), faulted, or
\* landed in the banks of another evaluation instance (peer).
Mem(TempList, VariableList, Regs, wild, trap) == [ TempList |-> TempList, VariableList |-> VariableList, Regs |-> Regs, wild |-> wild, trap |-> trap, peer |-> FALSE ]

\* bank[Index] = Value with Index outside the bank: the store lands on
\* whatever lies there.  It may hit nothing the model tracks, a slot of the
\* other bank, the register snapshot, an unmapped page, or the banks of
\* another evaluation instance: Index is a 64-bit value, so bank + 8 * Index
\* reaches every aligned address.
WildWrite(TempList, VariableList, Regs, intoTemp, Index, Value) ==
    { Mem(TempList, VariableList, Regs, TRUE, FALSE),
      [ Mem(TempList, VariableList, Regs, TRUE, FALSE) EXCEPT !.peer = TRUE ],
      Mem(TempList, VariableList, Regs, TRUE, TRUE),
      Mem(TempList, VariableList, [ Regs EXCEPT !.rax = Value ], TRUE, FALSE),
      IF intoTemp
      THEN Mem(TempList, [ VariableList EXCEPT ![Index[1] % MAX_VAR_COUNT] = Value ], Regs, TRUE, FALSE)
      ELSE Mem([ TempList EXCEPT ![Index[1] % MAX_TEMP_COUNT] = Value ], VariableList, Regs, TRUE, FALSE) }

\* SetValue with the two banks exchanged.
SetValueExchanged(Regs, TempList, VariableList, Symbol, Value) ==
    CASE Symbol.Type = SYMBOL_ID_TYPE ->
           IF InBank(Symbol.Value, MAX_TEMP_COUNT)
           THEN { Mem([ TempList EXCEPT ![ToNat(Symbol.Value)] = Value ], VariableList, Regs, FALSE, FALSE) }
           ELSE WildWrite(TempList, VariableList, Regs, TRUE, Symbol.Value, Value)
      [] Symbol.Type = SYMBOL_TEMP_TYPE ->
           IF InBank(Symbol.Value, MAX_VAR_COUNT)
           THEN { Mem(TempList, [ VariableList EXCEPT ![ToNat(Symbol.Value)] = Value ], Regs, FALSE, FALSE) }
           ELSE WildWrite(TempList, VariableList, Regs, FALSE, Symbol.Value, Value)
      [] OTHER -> { Mem(TempList, VariableList, Regs, FALSE, FALSE) }

\* Only SYMBOL_ID_TYPE and SYMBOL_TEMP_TYPE have a case; every other type
\* falls through the switch and the function returns having done nothing.
SetValue(Regs, TempList, VariableList, Symbol, Value) ==
    CASE Symbol.Type = SYMBOL_ID_TYPE ->
           IF InBank(Symbol.Value, MAX_VAR_COUNT)
           THEN { Mem(TempList, [ VariableList EXCEPT ![ToNat(Symbol.Value)] = Value ], Regs, FALSE, FALSE) }
           ELSE WildWrite(TempList, VariableList, Regs, FALSE, Symbol.Value, Value)
      [] Symbol.Type = SYMBOL_TEMP_TYPE ->
           IF InBank(Symbol.Value, MAX_TEMP_COUNT)
           THEN { Mem([ TempList EXCEPT ![ToNat(Symbol.Value)] = Value ], VariableList, Regs, FALSE, FALSE) }
           ELSE WildWrite(TempList, VariableList, Regs, TRUE, Symbol.Value, Value)
      [] OTHER -> { Mem(TempList, VariableList, Regs, FALSE, FALSE) }

\* ------------------------------------------------------------------------
\* Computation of each instruction shape
\* ------------------------------------------------------------------------

BinaryOps == { FUNC_OR, FUNC_XOR, FUNC_AND, FUNC_ASR, FUNC_ASL, FUNC_ADD, FUNC_SUB, FUNC_MUL, FUNC_DIV, FUNC_MOD }

MemoryReadOps == { FUNC_POI, FUNC_DB, FUNC_DW, FUNC_DQ, FUNC_HI, FUNC_LOW }

UnaryOps == { FUNC_NOT, FUNC_NEG, FUNC_MOV }

UnhandledOps == { FUNC_STR, FUNC_WSTR, FUNC_SIZEOF }

\* The shift count of SrcVal1 >> SrcVal0 and SrcVal1 << SrcVal0.  C defines
\* the shift of a 64-bit value only for counts 0..63.
ShiftDefined(Count) == InBank(Count, 64)

\* A shift by 64 or more is undefined: the shift instruction uses the low
\* six bits of the count, a folded constant gives 0.
ShiftUndefined(f, Value, Count) ==
    LET k == Count[1] % 64
    IN  { Ret(IF f = FUNC_ASR THEN WShr(Value, k) ELSE WShl(Value, k)), Ret(Zero) }

\* BinaryOp with the operands of every case exchanged (SrcVal0 OP SrcVal1).
BinaryOpExchanged(f, SrcVal1, SrcVal0) ==
    CASE f = FUNC_OR  -> { Ret(WOr(SrcVal0, SrcVal1)) }
      [] f = FUNC_XOR -> { Ret(WXor(SrcVal0, SrcVal1)) }
      [] f = FUNC_AND -> { Ret(WAnd(SrcVal0, SrcVal1)) }
      [] f = FUNC_ASR -> IF ShiftDefined(SrcVal1) THEN { Ret(WShr(SrcVal0, ToNat(SrcVal1))) } ELSE ShiftUndefined(f, SrcVal0, SrcVal1)
      [] f = FUNC_ASL -> IF ShiftDefined(SrcVal1) THEN { Ret(WShl(SrcVal0, ToNat(SrcVal1))) } ELSE ShiftUndefined(f, SrcVal0, SrcVal1)
      [] f = FUNC_ADD -> { Ret(WAdd(SrcVal0, SrcVal1)) }
      [] f = FUNC_SUB -> { Ret(WSub(SrcVal0, SrcVal1)) }
      [] f = FUNC_MUL -> { Ret(WMul(SrcVal0, SrcVal1)) }
      [] f = FUNC_DIV -> IF SrcVal1 = Zero THEN { Fault } ELSE { Ret(WDiv(SrcVal0, SrcVal1)) }
      [] f = FUNC_MOD -> IF SrcVal1 = Zero THEN { Fault } ELSE { Ret(WMod(SrcVal0, SrcVal1)) }

\* DesVal = SrcVal1 OP SrcVal0 of the ten binary cases.  SrcVal1 / 0 and
\* SrcVal1 % 0 raise the divide error exception.
BinaryOp(f, SrcVal1, SrcVal0) ==
    CASE f = FUNC_OR  -> { Ret(WOr(SrcVal1, SrcVal0)) }
      [] f = FUNC_XOR -> { Ret(WXor(SrcVal1, SrcVal0)) }
      [] f = FUNC_AND -> { Ret(WAnd(SrcVal1, SrcVal0)) }
      [] f = FUNC_ASR -> IF ShiftDefined(SrcVal0) THEN { Ret(WShr(SrcVal1, ToNat(SrcVal0))) } ELSE ShiftUndefined(f, SrcVal1, SrcVal0)
      [] f = FUNC_ASL -> IF ShiftDefined(SrcVal0) THEN { Ret(WShl(SrcVal1, ToNat(SrcVal0))) } ELSE ShiftUndefined(f, SrcVal1, SrcVal0)
      [] f = FUNC_ADD -> { Ret(WAdd(SrcVal1, SrcVal0)) }
      [] f = FUNC_SUB -> { Ret(WSub(SrcVal1, SrcVal0)) }
      [] f = FUNC_MUL -> { Ret(WMul(SrcVal1, SrcVal0)) }
      [] f = FUNC_DIV -> IF SrcVal0 = Zero THEN { Fault } ELSE { Ret(WDiv(SrcVal1, SrcVal0)) }
      [] f = FUNC_MOD -> IF SrcVal0 = Zero THEN { Fault } ELSE { Ret(WMod(SrcVal1, SrcVal0)) }

\* The memory-read cases with FUNC_DW calling ScriptEngineKeywordDw.
MemoryReadOpDw(f, Address) ==
    CASE f = FUNC_POI -> ScriptEngineKeywordPoi(Address)
      [] f = FUNC_DB  -> ScriptEngineKeywordDb(Address)
      [] f = FUNC_DW  -> ScriptEngineKeywordDw(Address)
      [] f = FUNC_DQ  -> ScriptEngineKeywordDq(Address)
      [] f = FUNC_HI  -> ScriptEngineKeywordHi(Address)
      [] f = FUNC_LOW -> ScriptEngineKeywordLow(Address)

\* The keyword each memory-read case calls.  FUNC_DW calls
\* ScriptEngineKeywordDb.
MemoryReadOp(f, Address) ==
    CASE f = FUNC_POI -> ScriptEngineKeywordPoi(Address)
      [] f = FUNC_DB  -> ScriptEngineKeywordDb(Address)
      [] f = FUNC_DW  -> ScriptEngineKeywordDb(Address)
      [] f = FUNC_DQ  -> ScriptEngineKeywordDq(Address)
      [] f = FUNC_HI  -> ScriptEngineKeywordHi(Address)
      [] f = FUNC_LOW -> ScriptEngineKeywordLow(Address)

\* -(INT64)SrcVal0 is defined by C unless SrcVal0 is 2^63, the bit pattern of
\* the least INT64, whose negation overflows.
NegDefined(SrcVal0) == SrcVal0 # TopBit

\* The negation of the least INT64 is undefined: the neg instruction gives
\* the same bit pattern back, a build that traps on overflow stops the call.
NegUndefined(SrcVal0) == { Ret(WNeg(SrcVal0)), Fault }

\* DesVal of FUNC_NOT, FUNC_NEG and FUNC_MOV, with FUNC_NEG computing ~SrcVal0.
UnaryOpOnesComplement(f, SrcVal0) ==
    CASE f = FUNC_NOT -> { Ret(WNot(SrcVal0)) }
      [] f = FUNC_NEG -> { Ret(WNot(SrcVal0)) }
      [] f = FUNC_MOV -> { Ret(SrcVal0) }

\* DesVal of FUNC_NOT, FUNC_NEG and FUNC_MOV.
UnaryOp(f, SrcVal0) ==
    CASE f = FUNC_NOT -> { Ret(WNot(SrcVal0)) }
      [] f = FUNC_NEG -> IF NegDefined(SrcVal0) THEN { Ret(WNeg(SrcVal0)) } ELSE NegUndefined(SrcVal0)
      [] f = FUNC_MOV -> { Ret(SrcVal0) }

\* ------------------------------------------------------------------------
\* State
\* ------------------------------------------------------------------------

VARIABLES CodeBuffer, Indx, GuestRegs, g_TempList, g_VariableList, Output, outcome, mode, last, self, peer

\* The event forwarding subsystem (forwarding.cpp).
VARIABLES g_OutputSources, g_EventTrace, is_true, Written, fwd

scriptVars == << CodeBuffer, Indx, GuestRegs, g_TempList, g_VariableList, Output, outcome, mode, last, self, peer >>

forwardingVars == << g_OutputSources, g_EventTrace, is_true, Written, fwd >>

vars == << scriptVars, forwardingVars >>

SCRIPT_ENGINE_USER_MODE == "SCRIPT_ENGINE_USER_MODE"

SCRIPT_ENGINE_KERNEL_MODE == "SCRIPT_ENGINE_KERNEL_MODE"

\* One record per call that leaves the executor.
Entry(fn, text, Tag, Immediate, Value) == [ fn |-> fn, text |-> text, Tag |-> Tag, Immediate |-> Immediate, Value |-> Value ]

\* printf, compiled in only under SCRIPT_ENGINE_USER_MODE.
UserPrintf(text, Value) ==
    IF mode = SCRIPT_ENGINE_USER_MODE THEN << Entry("printf", text, Zero, FALSE, Value) >> ELSE << >>

\* ScriptEngineFunctionPrint handing the sink the tag 0 for every caller.
ScriptEngineFunctionPrintUntagged(Tag, ImmediateMessagePassing, Value) ==
    << Entry("ScriptEngineFunctionPrint", "%llx\n", Zero, ImmediateMessagePassing, Value) >>

\* The call of the output sink; it prints with printf in user mode and with
\* LogSimpleWithTag in kernel mode.
ScriptEngineFunctionPrint(Tag, ImmediateMessagePassing, Value) ==
    IF mode \in { SCRIPT_ENGINE_USER_MODE, SCRIPT_ENGINE_KERNEL_MODE }
    THEN << Entry("ScriptEngineFunctionPrint", "%llx\n", Tag, ImmediateMessagePassing, Value) >>
    ELSE << >>

\* The block of FUNC_MOV without the test on Des->Type.
MovResultUntested(Des, DesVal) ==
    IF mode = SCRIPT_ENGINE_USER_MODE THEN << Entry("printf", "Result is %llx\n", Zero, FALSE, DesVal) >>
    ELSE << Entry("DbgBreakPoint", "", Zero, FALSE, Zero), Entry("LogInfo", "Result is %llx\n", Zero, FALSE, DesVal) >>

\* The block FUNC_MOV runs when Des->Type == SYMBOL_ID_TYPE.
MovResult(Des, DesVal) ==
    IF Des.Type # SYMBOL_ID_TYPE THEN << >>
    ELSE IF mode = SCRIPT_ENGINE_USER_MODE THEN << Entry("printf", "Result is %llx\n", Zero, FALSE, DesVal) >>
    ELSE << Entry("DbgBreakPoint", "", Zero, FALSE, Zero), Entry("LogInfo", "Result is %llx\n", Zero, FALSE, DesVal) >>

\* A symbol that was not fetched.
NoSymbol == Sym("none", Zero)

\* What a fetch beyond the end of the code buffer can read.
GarbageSymbols == { Sym(SYMBOL_NUM_TYPE, Zero), Sym(SYMBOL_TEMP_TYPE, One), Sym("garbage", AllOnes) }

\* (PSYMBOL)(CodeBuffer->Head + i * sizeof(SYMBOL)): no length is checked.
Fetch(i) == IF i < Len(CodeBuffer) THEN { CodeBuffer[i + 1] } ELSE GarbageSymbols

RegisterIds == { REGISTER_RAX, REGISTER_RCX, REGISTER_RDX, REGISTER_RBX, REGISTER_RSP, REGISTER_RBP, REGISTER_RSI, REGISTER_RDI, REGISTER_R8, REGISTER_R9, REGISTER_R10, REGISTER_R11, REGISTER_R12, REGISTER_R13, REGISTER_R14, REGISTER_R15 }

PseudoRegisterIds == { PSEUDO_REGISTER_TID, PSEUDO_REGISTER_PID }

\* A bank symbol whose index is outside its bank.
BadIndex(s) ==
    \/ s.Type = SYMBOL_ID_TYPE /\ ~InBank(s.Value, MAX_VAR_COUNT)
    \/ s.Type = SYMBOL_TEMP_TYPE /\ ~InBank(s.Value, MAX_TEMP_COUNT)

\* A register or pseudo-register symbol whose id no case returns a register for.
BadRegister(s) ==
    \/ s.Type = SYMBOL_REGISTER_TYPE /\ s.Value \notin RegisterIds
    \/ s.Type = SYMBOL_PSEUDO_REG_TYPE /\ s.Value \notin PseudoRegisterIds

\* A destination symbol that names a slot of a bank.
ValidDestination(s) == s.Type \in { SYMBOL_ID_TYPE, SYMBOL_TEMP_TYPE } /\ ~BadIndex(s)

\* A fetched destination that is neither a script variable nor a temporary.
BadDestination(s) == s # NoSymbol /\ s.Type \notin { SYMBOL_ID_TYPE, SYMBOL_TEMP_TYPE }

\* The call recorded in `last` is one the specification calls a failure:
\* malformed fetch, bad index, bad register, bad destination, bad address,
\* divide by zero, unsupported opcode.
FailedCall ==
    /\ last.ran
    /\ \/ last.Operator.Type # SYMBOL_SEMANTIC_RULE_TYPE
       \/ last.start + last.fetches > Len(CodeBuffer)
       \/ BadIndex(last.Src0) \/ BadIndex(last.Src1) \/ BadIndex(last.Des)
       \/ BadRegister(last.Src0) \/ BadRegister(last.Src1)
       \/ BadDestination(last.Des)
       \/ outcome = "Trap"
       \/ last.Operator.Value \notin (BinaryOps \cup MemoryReadOps \cup UnaryOps \cup { FUNC_PRINT })

\* The record of the call in progress: what it fetched and resolved, and the
\* memory as it was when the call began.  count is the number of calls the
\* evaluation has made; Tag and ImmediateMessagePassing are recorded by
\* FUNC_PRINT, the one case that uses them.
CallInfo(Operator, Src0) ==
    [ ran |-> TRUE, start |-> Indx, Operator |-> Operator, Src0 |-> Src0, Src1 |-> NoSymbol, Des |-> NoSymbol,
      SrcVal0 |-> Zero, SrcVal1 |-> Zero, DesVal |-> Zero, resolved0 |-> FALSE, resolved1 |-> FALSE, computed |-> FALSE, stored |-> FALSE,
      wild |-> FALSE, fetches |-> 2, preTemp |-> g_TempList, preVar |-> g_VariableList, preRegs |-> GuestRegs, preOutput |-> Len(Output), afterFailure |-> FailedCall,
      Tag |-> Zero, ImmediateMessagePassing |-> FALSE, count |-> last.count + 1 ]

NoCall ==
    [ ran |-> FALSE, start |-> 0, Operator |-> NoSymbol, Src0 |-> NoSymbol, Src1 |-> NoSymbol, Des |-> NoSymbol,
      SrcVal0 |-> Zero, SrcVal1 |-> Zero, DesVal |-> Zero, resolved0 |-> FALSE, resolved1 |-> FALSE, computed |-> FALSE, stored |-> FALSE,
      wild |-> FALSE, fetches |-> 0, preTemp |-> g_TempList, preVar |-> g_VariableList, preRegs |-> GuestRegs, preOutput |-> 0, afterFailure |-> FALSE,
      Tag |-> Zero, ImmediateMessagePassing |-> FALSE, count |-> 0 ]

\* The call ends in a hardware exception: nothing returns to the driver.
Crash(idx, outs, info) ==
    /\ Indx' = idx
    /\ outcome' = "Trap"
    /\ Output' = Output \o outs
    /\ last' = info
    /\ UNCHANGED << CodeBuffer, GuestRegs, g_TempList, g_VariableList, mode, self, peer, forwardingVars >>

\* Return leaving the cursor where the call found it.
ReturnInPlace(idx, outs, info) ==
    /\ Indx' = Indx
    /\ outcome' = "Returned"
    /\ Output' = Output \o outs
    /\ last' = info
    /\ UNCHANGED << CodeBuffer, GuestRegs, g_TempList, g_VariableList, mode, self, peer, forwardingVars >>

\* The call returns (the function is VOID: it returns nothing to the driver).
Return(idx, outs, info) ==
    /\ Indx' = idx
    /\ outcome' = "Returned"
    /\ Output' = Output \o outs
    /\ last' = info
    /\ UNCHANGED << CodeBuffer, GuestRegs, g_TempList, g_VariableList, mode, self, peer, forwardingVars >>

\* No call of the forwarding subsystem has been made.
NoForwarding == [ fn |-> "none" ]

\* An evaluation instance that is not running: its cursor, banks, register
\* snapshot, output and the record of its last call.
Context(live, i) ==
    [ live |-> live, Indx |-> Indx, TempList |-> g_TempList, VariableList |-> g_VariableList, Regs |-> GuestRegs,
      Output |-> Output, outcome |-> outcome, last |-> last, self |-> i ]

\* The instance after a store of another instance landed in its variable bank.
Clobbered(c, Index, Value) ==
    [ c EXCEPT !.VariableList = [ @ EXCEPT ![Index[1] % MAX_VAR_COUNT] = Value ], !.self = [ @ EXCEPT !.clobbered = TRUE ] ]

\* Store without the advance of the cursor over Des.
StoreBeforeDes(idx, Des, DesVal, pre, post, info) ==
    \E m \in SetValue(GuestRegs, g_TempList, g_VariableList, Des, DesVal) :
        /\ Indx' = idx - 1
        /\ g_TempList' = m.TempList
        /\ g_VariableList' = m.VariableList
        /\ GuestRegs' = m.Regs
        /\ outcome' = IF m.trap THEN "Trap" ELSE "Returned"
        /\ Output' = IF m.trap THEN Output \o pre ELSE Output \o pre \o post
        /\ last' = [ info EXCEPT !.Des = Des, !.DesVal = DesVal, !.computed = TRUE, !.stored = ~m.trap, !.wild = m.wild ]
        /\ peer' = IF m.peer /\ peer.live THEN Clobbered(peer, Des.Value, DesVal) ELSE peer
        /\ UNCHANGED << CodeBuffer, mode, self, forwardingVars >>

\* SetValue(..., Des, DesVal), then the rest of the case and the return.
Store(idx, Des, DesVal, pre, post, info) ==
    \E m \in SetValue(GuestRegs, g_TempList, g_VariableList, Des, DesVal) :
        /\ Indx' = idx
        /\ g_TempList' = m.TempList
        /\ g_VariableList' = m.VariableList
        /\ GuestRegs' = m.Regs
        /\ outcome' = IF m.trap THEN "Trap" ELSE "Returned"
        /\ Output' = IF m.trap THEN Output \o pre ELSE Output \o pre \o post
        /\ last' = [ info EXCEPT !.Des = Des, !.DesVal = DesVal, !.computed = TRUE, !.stored = ~m.trap, !.wild = m.wild ]
        /\ peer' = IF m.peer /\ peer.live THEN Clobbered(peer, Des.Value, DesVal) ELSE peer
        /\ UNCHANGED << CodeBuffer, mode, self, forwardingVars >>

\* ------------------------------------------------------------------------
\* ScriptEngineExecute: one call executes one instruction
\* ------------------------------------------------------------------------

\* The callers' (Tag, ImmediateMessagePassing) arguments.
Callers == { << U64(1), TRUE >>, << U64(2), FALSE >> }

\* The driver calls ScriptEngineExecute while the cursor is inside the code
\* buffer, and a call that trapped never returns to it.
DriverContinues == outcome # "Trap" /\ Indx < Len(CodeBuffer)

\* The head of the function: the operator and Src0 are fetched and Src0 is
\* resolved before the operator is looked at.
Decoded ==
    UNION { UNION { { << Operator, Src0, r0 >> : r0 \in GetValue(GuestRegs, g_TempList, g_VariableList, Src0) }
                    : Src0 \in Fetch(Indx + 1) }
            : Operator \in Fetch(Indx) }

\* case INVALID of GetRegValue and GetPseudoRegValue prints in user mode.
ReadError(Symbol) ==
    IF Symbol.Type \in { SYMBOL_REGISTER_TYPE, SYMBOL_PSEUDO_REG_TYPE } /\ Symbol.Value = INVALID
    THEN UserPrintf("Error in reading regesiter", Zero)
    ELSE << >>

\* The messages of the three cases that are not handled yet.
NotHandled(f) ==
    CASE f = FUNC_STR -> UserPrintf("Error: STR functions is not handled yet.\n", Zero)
      [] f = FUNC_WSTR -> UserPrintf("Error: WSTR functions is not handled yet.\n", Zero)
      [] f = FUNC_SIZEOF -> UserPrintf("Error: DB functions is not handled yet.\n", Zero)

\* The type test on the operator prints in user mode and does not return.
ExpectingOperator(Operator) ==
    IF Operator.Type # SYMBOL_SEMANTIC_RULE_TYPE THEN UserPrintf("Error:Expecting Operator Type.\n", Zero) ELSE << >>

\* What the head of the function prints: the type test on the operator
\* prints in user mode and does not return, then Src0 is resolved.
Prologue(d) == ExpectingOperator(d[1]) \o ReadError(d[2])

Resolved0(d) == [ CallInfo(d[1], d[2]) EXCEPT !.SrcVal0 = d[3].val, !.resolved0 = TRUE ]

\* Resolving Src0 faults (a bank index far outside the bank).
ExecuteSrc0Fault ==
    /\ DriverContinues
    /\ \E d \in Decoded :
        /\ d[3].trap
        /\ Crash(Indx + 2, Prologue(d), CallInfo(d[1], d[2]))

\* FUNC_OR .. FUNC_MOD: Src1, Des, DesVal = SrcVal1 OP SrcVal0, SetValue.
ExecuteBinary ==
    /\ DriverContinues
    /\ \E d \in Decoded :
        /\ ~d[3].trap
        /\ d[1].Value \in BinaryOps
        /\ \E Src1 \in Fetch(Indx + 2) : \E r1 \in GetValue(GuestRegs, g_TempList, g_VariableList, Src1) :
            LET info1 == [ Resolved0(d) EXCEPT !.Src1 = Src1, !.fetches = 3 ]
            IN  IF r1.trap
                THEN Crash(Indx + 3, Prologue(d) \o ReadError(Src1), info1)
                ELSE \E Des \in Fetch(Indx + 3) : \E v \in BinaryOp(d[1].Value, r1.val, d[3].val) :
                        LET info2 == [ info1 EXCEPT !.SrcVal1 = r1.val, !.resolved1 = TRUE, !.Des = Des, !.fetches = 4 ]
                        IN  IF v.trap
                            THEN Crash(Indx + 4, Prologue(d) \o ReadError(Src1), info2)
                            ELSE Store(Indx + 4, Des, v.val, Prologue(d) \o ReadError(Src1), UserPrintf("DesVal = %d\n", v.val), info2)

\* FUNC_POI, FUNC_DB, FUNC_DW, FUNC_DQ, FUNC_HI, FUNC_LOW: Des, then the
\* keyword on GetValue(Src0) (resolved a second time), SetValue.
ExecuteMemoryRead ==
    /\ DriverContinues
    /\ \E d \in Decoded :
        /\ ~d[3].trap
        /\ d[1].Value \in MemoryReadOps
        /\ \E Des \in Fetch(Indx + 2) : \E a \in GetValue(GuestRegs, g_TempList, g_VariableList, d[2]) :
            LET info1 == [ Resolved0(d) EXCEPT !.Des = Des, !.fetches = 3 ]
                v     == MemoryReadOp(d[1].Value, a.val)
            IN  IF a.trap \/ v.trap
                THEN Crash(Indx + 3, Prologue(d) \o ReadError(d[2]), info1)
                ELSE Store(Indx + 3, Des, v.val, Prologue(d) \o ReadError(d[2]), UserPrintf("DesVal = %d\n", v.val), [ info1 EXCEPT !.SrcVal0 = a.val ])

\* FUNC_NOT, FUNC_NEG, FUNC_MOV: Des, DesVal from SrcVal0, SetValue.
ExecuteUnary ==
    /\ DriverContinues
    /\ \E d \in Decoded :
        /\ ~d[3].trap
        /\ d[1].Value \in UnaryOps
        /\ \E Des \in Fetch(Indx + 2) : \E v \in UnaryOp(d[1].Value, d[3].val) :
            LET result == IF d[1].Value = FUNC_MOV THEN MovResult(Des, v.val) ELSE << >>
                info1  == [ Resolved0(d) EXCEPT !.fetches = 3 ]
            IN  IF v.trap
                THEN Crash(Indx + 3, Prologue(d), [ info1 EXCEPT !.Des = Des ])
                ELSE Store(Indx + 3, Des, v.val, Prologue(d), result \o UserPrintf("DesVal = %d\n", v.val), info1)

\* FUNC_PRINT: the output sink is called with SrcVal0.
ExecutePrint ==
    /\ DriverContinues
    /\ \E d \in Decoded : \E caller \in Callers :
        /\ ~d[3].trap
        /\ d[1].Value = FUNC_PRINT
        /\ Return(Indx + 2, Prologue(d) \o ScriptEngineFunctionPrint(caller[1], caller[2], d[3].val),
                  [ Resolved0(d) EXCEPT !.Tag = caller[1], !.ImmediateMessagePassing = caller[2] ])

\* FUNC_STR, FUNC_WSTR, FUNC_SIZEOF: a printf in user mode, and return.
ExecuteUnhandled ==
    /\ DriverContinues
    /\ \E d \in Decoded :
        /\ ~d[3].trap
        /\ d[1].Value \in UnhandledOps
        /\ Return(Indx + 2, Prologue(d) \o NotHandled(d[1].Value), Resolved0(d))

\* An operator value with no case: the switch is left and the call returns.
ExecuteNoCase ==
    /\ DriverContinues
    /\ \E d \in Decoded :
        /\ ~d[3].trap
        /\ d[1].Value \notin (BinaryOps \cup MemoryReadOps \cup UnaryOps \cup UnhandledOps \cup { FUNC_PRINT })
        /\ Return(Indx + 2, Prologue(d), Resolved0(d))

\* The other hardware thread runs: the instance that was running is set
\* aside and the other one continues with its own cursor, banks and snapshot.
ContextSwitch ==
    /\ peer.live
    /\ Indx' = peer.Indx
    /\ g_TempList' = peer.TempList
    /\ g_VariableList' = peer.VariableList
    /\ GuestRegs' = peer.Regs
    /\ Output' = peer.Output
    /\ outcome' = peer.outcome
    /\ last' = peer.last
    /\ self' = peer.self
    /\ peer' = Context(TRUE, self)
    /\ UNCHANGED << CodeBuffer, mode, forwardingVars >>

ScriptEngineExecute ==
    \/ ExecuteSrc0Fault
    \/ ExecuteBinary
    \/ ExecuteMemoryRead
    \/ ExecuteUnary
    \/ ExecutePrint
    \/ ExecuteUnhandled
    \/ ExecuteNoCase

\* ------------------------------------------------------------------------
\* Event forwarding (forwarding.cpp): output sources and the event trace
\* ------------------------------------------------------------------------

EVENT_FORWARDING_STATE_NOT_OPENED == "EVENT_FORWARDING_STATE_NOT_OPENED"

EVENT_FORWARDING_STATE_OPENED == "EVENT_FORWARDING_STATE_OPENED"

EVENT_FORWARDING_CLOSED == "EVENT_FORWARDING_CLOSED"

EVENT_FORWARDING_FILE == "EVENT_FORWARDING_FILE"

EVENT_FORWARDING_NAMEDPIPE == "EVENT_FORWARDING_NAMEDPIPE"

EVENT_FORWARDING_TCP == "EVENT_FORWARDING_TCP"

EVENT_FORWARDING_MODULE == "EVENT_FORWARDING_MODULE"

DEBUGGER_OUTPUT_SOURCE_STATUS_SUCCESSFULLY_OPENED == "DEBUGGER_OUTPUT_SOURCE_STATUS_SUCCESSFULLY_OPENED"

DEBUGGER_OUTPUT_SOURCE_STATUS_SUCCESSFULLY_CLOSED == "DEBUGGER_OUTPUT_SOURCE_STATUS_SUCCESSFULLY_CLOSED"

DEBUGGER_OUTPUT_SOURCE_STATUS_ALREADY_OPENED == "DEBUGGER_OUTPUT_SOURCE_STATUS_ALREADY_OPENED"

DEBUGGER_OUTPUT_SOURCE_STATUS_ALREADY_CLOSED == "DEBUGGER_OUTPUT_SOURCE_STATUS_ALREADY_CLOSED"

DEBUGGER_OUTPUT_SOURCE_STATUS_UNKNOWN_ERROR == "DEBUGGER_OUTPUT_SOURCE_STATUS_UNKNOWN_ERROR"

\* The number of output source tags an event holds.
DebuggerOutputSourceMaximumRemoteSourceForSingleEvent == 2

\* An empty slot of OutputSourceTags.
NULL == 0

\* The text ForwardingWriteToFile hands to WriteFile, and its strlen.
Hi == "1003\n1006\n1009\n100A\n100B\n100D\n100F\n1013\n1016\n101A\n101D\n1021\n1024\n1028\n102B\n102F\n1032\n1036\n1039\n103D\n1040\n1044"

strlen(text) == Len(text)

\* One transfer to a device: where, which bytes, how many were asked for and
\* how many the device took.
Transfer(Type, Handle, text, requested, sent) == [ Type |-> Type, Handle |-> Handle, text |-> text, requested |-> requested, sent |-> sent ]

\* What a forwarding function leaves behind: its return value, the flag
\* is_true and the transfers it made.
Done(ret, flag, transfers) == [ ret |-> ret, is_true |-> flag, transfers |-> transfers ]

\* WriteFile: the write succeeds and takes every byte, or fails.
WriteFile(FileHandle, text, requested) ==
    { [ ErrorFlag |-> TRUE, BytesWritten |-> requested ], [ ErrorFlag |-> FALSE, BytesWritten |-> 0 ] }

\* The flag is_true lets only the first call through; that call writes Hi,
\* not Message, and returns TRUE before ErrorFlag and BytesWritten are
\* looked at.  Every later call returns TRUE at once.
ForwardingWriteToFile(flag, FileHandle, Message, MessageLength) ==
    IF flag THEN { Done(TRUE, TRUE, << >>) }
    ELSE { Done(TRUE, TRUE, << Transfer(EVENT_FORWARDING_FILE, FileHandle, Hi, strlen(Hi), w.BytesWritten) >>)
             : w \in WriteFile(FileHandle, Hi, strlen(Hi)) }

\* NamedPipeClientSendMessage returns whether the message was sent.
ForwardingSendToNamedPipe(flag, NamedPipeHandle, Message, MessageLength) ==
    { Done(SentMessageResult, flag, << Transfer(EVENT_FORWARDING_NAMEDPIPE, NamedPipeHandle, Message, MessageLength, IF SentMessageResult THEN MessageLength ELSE 0) >>)
        : SentMessageResult \in BOOLEAN }

\* CommunicationClientSendMessage returns 0 when the message was sent.
ForwardingSendToTcpSocket(flag, TcpSocket, Message, MessageLength) ==
    { Done(status = 0, flag, << Transfer(EVENT_FORWARDING_TCP, TcpSocket, Message, MessageLength, IF status = 0 THEN MessageLength ELSE 0) >>)
        : status \in { 0, 1 } }

\* The switch on the type of an opened source.  The module's function
\* returns nothing and Result is set to TRUE; a type with no case leaves
\* Result as it was.
Dispatch(Source, Result, flag, Message, MessageLength) ==
    CASE Source.Type = EVENT_FORWARDING_NAMEDPIPE -> ForwardingSendToNamedPipe(flag, Source.Handle, Message, MessageLength)
      [] Source.Type = EVENT_FORWARDING_FILE -> ForwardingWriteToFile(flag, Source.Handle, Message, MessageLength)
      [] Source.Type = EVENT_FORWARDING_TCP -> ForwardingSendToTcpSocket(flag, Source.Handle, Message, MessageLength)
      [] Source.Type = EVENT_FORWARDING_MODULE -> { Done(TRUE, flag, << Transfer(EVENT_FORWARDING_MODULE, Source.Handle, Message, MessageLength, MessageLength) >>) }
      [] OTHER -> { Done(Result, flag, << >>) }

\* The last source of the list with the tag, 0 when there is none.
FindOutputSourceLast(Sources, OutputSourceTag) ==
    LET found == { k \in 1..Len(Sources) : Sources[k].OutputUniqueTag = OutputSourceTag }
    IN  IF found = { } THEN 0 ELSE CHOOSE k \in found : \A j \in found : k >= j

\* The first source of the list with the tag, 0 when there is none.
FindOutputSource(Sources, OutputSourceTag) ==
    LET found == { k \in 1..Len(Sources) : Sources[k].OutputUniqueTag = OutputSourceTag }
    IN  IF found = { } THEN 0 ELSE CHOOSE k \in found : \A j \in found : k <= j

\* The for loop of ForwardingPerformEventForwarding from slot i on, with the
\* Result, the flag and the transfers so far.  An empty slot returns Result;
\* the end of the loop returns FALSE.
RECURSIVE ForwardFrom(_, _, _, _, _, _)
ForwardFrom(i, so, Sources, EventDetail, Message, MessageLength) ==
    IF i > DebuggerOutputSourceMaximumRemoteSourceForSingleEvent THEN { Done(FALSE, so.is_true, so.transfers) }
    ELSE IF EventDetail.OutputSourceTags[i] = NULL THEN { so }
    ELSE LET k == FindOutputSource(Sources, EventDetail.OutputSourceTags[i])
         IN  IF k = 0 \/ Sources[k].State # EVENT_FORWARDING_STATE_OPENED
             THEN ForwardFrom(i + 1, so, Sources, EventDetail, Message, MessageLength)
             ELSE UNION { ForwardFrom(i + 1, Done(o.ret, o.is_true, so.transfers \o o.transfers), Sources, EventDetail, Message, MessageLength)
                            : o \in Dispatch(Sources[k], so.ret, so.is_true, Message, MessageLength) }

ForwardingPerformEventForwarding(flag, Sources, EventDetail, Message, MessageLength) ==
    ForwardFrom(1, Done(FALSE, flag, << >>), Sources, EventDetail, Message, MessageLength)

\* (UINT32)EventDetail->Tag: the low 32 bits of the 64-bit tag.
UINT32(Tag) == Tag.low

\* The events of the trace from the last one back (Blink) that have a custom
\* output and the tag; the loop stops at the first of them.
MatchingEvents(EventTrace, OperationCode) ==
    { k \in 1..Len(EventTrace) : EventTrace[k].HasCustomOutput /\ UINT32(EventTrace[k].Tag) = OperationCode }

\* The return value is OutputSourceFound; the result of
\* ForwardingPerformEventForwarding only decides whether a message is shown.
ForwardingCheckAndPerformEventForwarding(flag, Sources, EventTrace, OperationCode, Message, MessageLength) ==
    LET found == MatchingEvents(EventTrace, OperationCode)
    IN  IF found = { }
        THEN { [ ret |-> FALSE, is_true |-> flag, transfers |-> << >>, OutputSourceFound |-> FALSE, forwarded |-> FALSE, shown |-> << >> ] }
        ELSE LET k == CHOOSE e \in found : \A j \in found : j <= e
             IN  { [ ret |-> TRUE, is_true |-> o.is_true, transfers |-> o.transfers, OutputSourceFound |-> TRUE, forwarded |-> o.ret,
                     shown |-> IF o.ret THEN << >> ELSE << "err, there was an error transferring the message to the remote sources\n" >> ]
                   : o \in ForwardingPerformEventForwarding(flag, Sources, EventTrace[k], Message, MessageLength) }

\* ForwardingOpenOutputSource without the test for a closed source.
ForwardingOpenOutputSourceAgain(SourceDescriptor) ==
    IF SourceDescriptor.State = EVENT_FORWARDING_STATE_OPENED
    THEN [ status |-> DEBUGGER_OUTPUT_SOURCE_STATUS_ALREADY_OPENED, State |-> SourceDescriptor.State ]
    ELSE [ status |-> DEBUGGER_OUTPUT_SOURCE_STATUS_SUCCESSFULLY_OPENED, State |-> EVENT_FORWARDING_STATE_OPENED ]

\* The status ForwardingOpenOutputSource returns and the state it leaves.
ForwardingOpenOutputSource(SourceDescriptor) ==
    IF SourceDescriptor.State = EVENT_FORWARDING_CLOSED
    THEN [ status |-> DEBUGGER_OUTPUT_SOURCE_STATUS_ALREADY_CLOSED, State |-> SourceDescriptor.State ]
    ELSE IF SourceDescriptor.State = EVENT_FORWARDING_STATE_OPENED
    THEN [ status |-> DEBUGGER_OUTPUT_SOURCE_STATUS_ALREADY_OPENED, State |-> SourceDescriptor.State ]
    ELSE IF SourceDescriptor.Type \in { EVENT_FORWARDING_FILE, EVENT_FORWARDING_NAMEDPIPE, EVENT_FORWARDING_TCP, EVENT_FORWARDING_MODULE }
    THEN [ status |-> DEBUGGER_OUTPUT_SOURCE_STATUS_SUCCESSFULLY_OPENED, State |-> EVENT_FORWARDING_STATE_OPENED ]
    ELSE [ status |-> DEBUGGER_OUTPUT_SOURCE_STATUS_UNKNOWN_ERROR, State |-> EVENT_FORWARDING_STATE_OPENED ]

\* The status ForwardingCloseOutputSource returns and the state it leaves.
ForwardingCloseOutputSource(SourceDescriptor) ==
    IF SourceDescriptor.State = EVENT_FORWARDING_CLOSED
    THEN [ status |-> DEBUGGER_OUTPUT_SOURCE_STATUS_ALREADY_CLOSED, State |-> SourceDescriptor.State ]
    ELSE IF SourceDescriptor.State = EVENT_FORWARDING_STATE_NOT_OPENED \/ SourceDescriptor.State # EVENT_FORWARDING_STATE_OPENED
    THEN [ status |-> DEBUGGER_OUTPUT_SOURCE_STATUS_UNKNOWN_ERROR, State |-> SourceDescriptor.State ]
    ELSE IF SourceDescriptor.Type \in { EVENT_FORWARDING_FILE, EVENT_FORWARDING_TCP, EVENT_FORWARDING_NAMEDPIPE, EVENT_FORWARDING_MODULE }
    THEN [ status |-> DEBUGGER_OUTPUT_SOURCE_STATUS_SUCCESSFULLY_CLOSED, State |-> EVENT_FORWARDING_CLOSED ]
    ELSE [ status |-> DEBUGGER_OUTPUT_SOURCE_STATUS_UNKNOWN_ERROR, State |-> EVENT_FORWARDING_CLOSED ]

\* The messages the callers forward.
Messages == { "event" }

\* The operation codes the callers ask for.
OperationCodes == { 1, 2, 3, 9 }

\* A call of ForwardingOpenOutputSource on a source of the list.
OpenOutputSource ==
    \E k \in 1..Len(g_OutputSources) :
        LET r == ForwardingOpenOutputSource(g_OutputSources[k])
        IN  /\ g_OutputSources' = [ g_OutputSources EXCEPT ![k].State = r.State ]
            /\ fwd' = [ fn |-> "ForwardingOpenOutputSource", source |-> k, before |-> g_OutputSources[k].State, result |-> r.status ]
            /\ Written' = << >>
            /\ UNCHANGED << g_EventTrace, is_true, scriptVars >>

\* A call of ForwardingCloseOutputSource on a source of the list.
CloseOutputSource ==
    \E k \in 1..Len(g_OutputSources) :
        LET r == ForwardingCloseOutputSource(g_OutputSources[k])
        IN  /\ g_OutputSources' = [ g_OutputSources EXCEPT ![k].State = r.State ]
            /\ fwd' = [ fn |-> "ForwardingCloseOutputSource", source |-> k, before |-> g_OutputSources[k].State, result |-> r.status ]
            /\ Written' = << >>
            /\ UNCHANGED << g_EventTrace, is_true, scriptVars >>

\* A call of ForwardingWriteToFile on the handle of a file source.
WriteToFile ==
    \E k \in 1..Len(g_OutputSources) : \E Message \in Messages :
        /\ g_OutputSources[k].Type = EVENT_FORWARDING_FILE
        /\ \E o \in ForwardingWriteToFile(is_true, g_OutputSources[k].Handle, Message, strlen(Message)) :
            /\ is_true' = o.is_true
            /\ Written' = o.transfers
            /\ fwd' = [ fn |-> "ForwardingWriteToFile", FileHandle |-> g_OutputSources[k].Handle, Message |-> Message, MessageLength |-> strlen(Message), result |-> o.ret ]
            /\ UNCHANGED << g_OutputSources, g_EventTrace, scriptVars >>

\* A call of ForwardingPerformEventForwarding on an event of the trace.
PerformEventForwarding ==
    \E e \in 1..Len(g_EventTrace) : \E Message \in Messages :
        \E o \in ForwardingPerformEventForwarding(is_true, g_OutputSources, g_EventTrace[e], Message, strlen(Message)) :
            /\ is_true' = o.is_true
            /\ Written' = o.transfers
            /\ fwd' = [ fn |-> "ForwardingPerformEventForwarding", EventDetail |-> e, Message |-> Message, MessageLength |-> strlen(Message), result |-> o.ret ]
            /\ UNCHANGED << g_OutputSources, g_EventTrace, scriptVars >>

\* A call of ForwardingCheckAndPerformEventForwarding.
CheckAndPerformEventForwarding ==
    \E OperationCode \in OperationCodes : \E Message \in Messages :
        \E o \in ForwardingCheckAndPerformEventForwarding(is_true, g_OutputSources, g_EventTrace, OperationCode, Message, strlen(Message)) :
            /\ is_true' = o.is_true
            /\ Written' = o.transfers
            /\ fwd' = [ fn |-> "ForwardingCheckAndPerformEventForwarding", OperationCode |-> OperationCode, Message |-> Message, MessageLength |-> strlen(Message),
                        result |-> o.ret, OutputSourceFound |-> o.OutputSourceFound, forwarded |-> o.forwarded, shown |-> o.shown ]
            /\ UNCHANGED << g_OutputSources, g_EventTrace, scriptVars >>

\* ------------------------------------------------------------------------
\* Code buffers, register snapshot and initial state
\* ------------------------------------------------------------------------

Op(f) == Sym(SYMBOL_SEMANTIC_RULE_TYPE, f)

Num(n) == Sym(SYMBOL_NUM_TYPE, U64(n))

Var(i) == Sym(SYMBOL_ID_TYPE, U64(i))

Tmp(i) == Sym(SYMBOL_TEMP_TYPE, U64(i))

Reg(r) == Sym(SYMBOL_REGISTER_TYPE, r)

Pseudo(r) == Sym(SYMBOL_PSEUDO_REG_TYPE, r)

\* The instructions (and malformed pieces) code buffers are built from.
Fragments ==
    << << Op(FUNC_SUB), Num(5), Num(10), Tmp(0) >>,
       << Op(FUNC_SUB), Num(10), Num(5), Var(1) >>,
       << Op(FUNC_ADD), Reg(REGISTER_RBX), Num(1), Tmp(1) >>,
       << Op(FUNC_ADD), Var(0), Num(3), Tmp(0) >>,
       << Op(FUNC_MOV), Num(7), Var(0) >>,
       << Op(FUNC_MUL), Reg(REGISTER_RBX), Reg(REGISTER_RAX), Var(31) >>,
       << Op(FUNC_DIV), Num(3), Num(10), Tmp(31) >>,
       << Op(FUNC_MOD), Num(3), Reg(REGISTER_RBX), Tmp(2) >>,
       << Op(FUNC_DIV), Num(0), Num(10), Tmp(0) >>,
       << Op(FUNC_MOD), Tmp(5), Num(10), Var(0) >>,
       << Op(FUNC_OR), Num(12), Num(10), Tmp(3) >>,
       << Op(FUNC_XOR), Num(12), Reg(REGISTER_RDX), Tmp(3) >>,
       << Op(FUNC_AND), Num(12), Reg(REGISTER_RBX), Var(2) >>,
       << Op(FUNC_ASR), Num(4), Reg(REGISTER_RBX), Tmp(4) >>,
       << Op(FUNC_ASL), Num(4), Reg(REGISTER_RAX), Tmp(4) >>,
       << Op(FUNC_ASL), Num(64), Num(1), Tmp(6) >>,
       << Op(FUNC_ASR), Num(65), Reg(REGISTER_RBX), Tmp(6) >>,
       << Op(FUNC_POI), Reg(REGISTER_RSP), Tmp(7) >>,
       << Op(FUNC_POI), Num(0), Tmp(7) >>,
       << Op(FUNC_DB), Reg(REGISTER_RSP), Tmp(8) >>,
       << Op(FUNC_DW), Reg(REGISTER_RSP), Tmp(8) >>,
       << Op(FUNC_DQ), Reg(REGISTER_RSP), Var(3) >>,
       << Op(FUNC_HI), Reg(REGISTER_RSP), Tmp(9) >>,
       << Op(FUNC_LOW), Reg(REGISTER_RSP), Tmp(9) >>,
       << Op(FUNC_NOT), Num(15), Tmp(10) >>,
       << Op(FUNC_NEG), Num(1), Tmp(10) >>,
       << Op(FUNC_MOV), Reg(REGISTER_RAX), Tmp(0) >>,
       << Op(FUNC_PRINT), Reg(REGISTER_RAX) >>,
       << Op(FUNC_PRINT), Var(0) >>,
       << Op(FUNC_STR), Num(0) >>,
       << Op(FUNC_WSTR) >>,
       << Op(FUNC_SIZEOF), Num(0) >>,
       << Op(FUNC_MOV), Num(7), Var(32) >>,
       << Op(FUNC_MOV), Tmp(32), Var(4) >>,
       << Op(FUNC_MOV), Num(7), Reg(REGISTER_RAX) >>,
       << Op(FUNC_ADD), Num(1), Num(2), Num(3) >>,
       << Op(FUNC_NOT), Num(7), Pseudo(PSEUDO_REGISTER_TID) >>,
       << Op(FUNC_MOV), Reg(INVALID), Tmp(11) >>,
       << Op(FUNC_MOV), Reg(U64(16)), Tmp(11) >>,
       << Op(FUNC_MOV), Pseudo(U64(5)), Tmp(11) >>,
       << Op(FUNC_MOV), Pseudo(PSEUDO_REGISTER_TID), Tmp(12) >>,
       << Op(FUNC_ADD), Pseudo(PSEUDO_REGISTER_PID), Num(1), Var(5) >>,
       << Sym(SYMBOL_NUM_TYPE, FUNC_MOV), Num(9), Var(6) >>,
       << Num(99) >>,
       << Op(FUNC_ADD), Num(1) >>,
       << Op(U64(99)), Num(1) >>,
       << Op(FUNC_MOV), Sym(SYMBOL_NUM_TYPE, AllOnes), Var(0), Op(FUNC_ADD), Var(0), Num(3), Tmp(0) >>,
       << Op(FUNC_MOV), Num(70000), Var(0), Op(FUNC_ADD), Var(0), Num(0), Tmp(0) >>,
       << Op(FUNC_ASR), Num(63), Reg(REGISTER_R15), Tmp(4) >>,
       << Op(FUNC_ASR), Num(1), Reg(REGISTER_R15), Var(8) >>,
       << Op(FUNC_ASR), Num(0), Reg(REGISTER_RBX), Tmp(4) >>,
       << Op(FUNC_ASL), Num(63), Num(3), Tmp(4) >>,
       << Op(FUNC_ASL), Num(8), Reg(REGISTER_RBX), Var(8) >>,
       << Op(FUNC_ASR), Reg(REGISTER_RCX), Reg(REGISTER_RAX), Tmp(4) >>,
       << Op(FUNC_DB), Reg(REGISTER_RBP), Tmp(8) >>,
       << Op(FUNC_DW), Reg(REGISTER_RBP), Var(9) >>,
       << Op(FUNC_DW), Num(4096), Tmp(8) >>,
       << Op(FUNC_HI), Reg(REGISTER_RBP), Tmp(9) >>,
       << Op(FUNC_LOW), Reg(REGISTER_RBP), Var(9) >>,
       << Op(FUNC_HI), Num(4096), Var(9) >>,
       << Op(FUNC_NEG), Num(0), Tmp(10) >>,
       << Op(FUNC_NEG), Reg(REGISTER_R15), Tmp(10) >>,
       << Op(FUNC_NEG), Num(1), Tmp(10), Op(FUNC_NEG), Tmp(10), Tmp(11) >>,
       << Op(FUNC_NEG), Reg(REGISTER_RAX), Var(7), Op(FUNC_NEG), Var(7), Tmp(11) >>,
       << Op(FUNC_NEG), Reg(REGISTER_RBX), Tmp(10), Op(FUNC_NEG), Tmp(10), Tmp(11) >> >>

\* The instructions that may follow the first fragment of a code buffer.
TailInstructions ==
    << << Op(FUNC_ADD), Var(0), Num(3), Tmp(0) >>,
       << Op(FUNC_PRINT), Tmp(0) >>,
       << Op(FUNC_MOV), Num(7), Var(0) >> >>

\* The most instructions that follow the first fragment.
MaxTail == 2

RECURSIVE Flatten(_, _)
Flatten(t, i) == IF i > Len(t) THEN << >> ELSE TailInstructions[t[i]] \o Flatten(t, i + 1)

Tails == UNION { [ 1..n -> 1..Len(TailInstructions) ] : n \in 0..MaxTail }

\* The code buffers: one fragment, then up to MaxTail tail instructions.
Programs == { Fragments[f] \o Flatten(t, 1) : f \in 1..Len(Fragments), t \in Tails }

\* The register snapshot of the evaluation.
InitialRegs ==
    [ rax |-> U64(4660), rcx |-> U64(5), rdx |-> U64(10), rbx |-> AllOnes, rsp |-> MappedAddress, rbp |-> U64(8192),
      rsi |-> U64(106), rdi |-> U64(107), r8 |-> U64(108), r9 |-> U64(109), r10 |-> U64(110), r11 |-> U64(111),
      r12 |-> U64(112), r13 |-> U64(113), r14 |-> U64(114), r15 |-> TopBit ]

\* A fresh evaluation of one of the given code buffers: cursor 0, both
\* banks reset, nothing printed.
InitEvaluation(buffers) ==
    /\ CodeBuffer \in buffers
    /\ Indx = 0
    /\ GuestRegs = InitialRegs
    /\ g_TempList = [ i \in 0..(MAX_TEMP_COUNT - 1) |-> Zero ]
    /\ g_VariableList = [ i \in 0..(MAX_VAR_COUNT - 1) |-> Zero ]
    /\ Output = << >>
    /\ outcome = "Ready"
    /\ mode \in { SCRIPT_ENGINE_USER_MODE, SCRIPT_ENGINE_KERNEL_MODE }
    /\ last = NoCall
    /\ self = [ id |-> 1, clobbered |-> FALSE ]

\* No event is being forwarded.
ForwardingIdle ==
    /\ g_OutputSources = << >>
    /\ g_EventTrace = << >>
    /\ is_true = FALSE
    /\ Written = << >>
    /\ fwd = NoForwarding

\* One evaluation instance, run by the driver from cursor 0.
Init ==
    /\ InitEvaluation(Programs)
    /\ peer = Context(FALSE, [ id |-> 2, clobbered |-> FALSE ])
    /\ ForwardingIdle

Next == ScriptEngineExecute

Spec == Init /\ [][Next]_vars

\* The same event fires on two hardware threads: two evaluation instances of
\* one code buffer, each with its own cursor, banks and register snapshot.
InitInstances ==
    /\ InitEvaluation({ buffer \in Programs : Len(buffer) <= 7 })
    /\ peer = Context(TRUE, [ id |-> 2, clobbered |-> FALSE ])
    /\ ForwardingIdle

NextInstances == ScriptEngineExecute \/ ContextSwitch

SpecInstances == InitInstances /\ [][NextInstances]_vars

\* A Type that is none of file, named pipe, tcp and module.
EVENT_FORWARDING_OTHER == "EVENT_FORWARDING_OTHER"

\* The output sources of the debugger: a file, a named pipe, a tcp socket
\* and a module, none of them opened yet.
OutputSources ==
    << [ OutputUniqueTag |-> 1, State |-> EVENT_FORWARDING_STATE_NOT_OPENED, Type |-> EVENT_FORWARDING_FILE, Handle |-> 11 ],
       [ OutputUniqueTag |-> 2, State |-> EVENT_FORWARDING_STATE_NOT_OPENED, Type |-> EVENT_FORWARDING_NAMEDPIPE, Handle |-> 12 ],
       [ OutputUniqueTag |-> 3, State |-> EVENT_FORWARDING_STATE_NOT_OPENED, Type |-> EVENT_FORWARDING_TCP, Handle |-> 13 ],
       [ OutputUniqueTag |-> 4, State |-> EVENT_FORWARDING_STATE_NOT_OPENED, Type |-> EVENT_FORWARDING_MODULE, Handle |-> 14 ] >>

\* A list of output sources in which two named pipes have the same tag and
\* one source is of no known type.
OutputSourcesWithSameTag ==
    << [ OutputUniqueTag |-> 2, State |-> EVENT_FORWARDING_STATE_NOT_OPENED, Type |-> EVENT_FORWARDING_NAMEDPIPE, Handle |-> 12 ],
       [ OutputUniqueTag |-> 1, State |-> EVENT_FORWARDING_STATE_NOT_OPENED, Type |-> EVENT_FORWARDING_OTHER, Handle |-> 15 ],
       [ OutputUniqueTag |-> 2, State |-> EVENT_FORWARDING_STATE_NOT_OPENED, Type |-> EVENT_FORWARDING_NAMEDPIPE, Handle |-> 16 ] >>

\* An event: its tag, whether it has a custom output, and its tag slots, of
\* which the first hold tags and the others hold rest.
EventDetail(high, low, HasCustomOutput, tags, rest) ==
    [ Tag |-> [ high |-> high, low |-> low ], HasCustomOutput |-> HasCustomOutput,
      OutputSourceTags |-> [ i \in 1..DebuggerOutputSourceMaximumRemoteSourceForSingleEvent |-> IF i <= Len(tags) THEN tags[i] ELSE rest ] ]

\* The event traces: events with one source, with every slot in use, with
\* no custom output, with a tag of an unknown source, and with a tag above
\* 32 bits.
EventTraces ==
    { << EventDetail(0, 1, TRUE, << 4 >>, 3), EventDetail(0, 2, TRUE, << 2 >>, NULL), EventDetail(0, 3, FALSE, << 4 >>, NULL) >>,
      << EventDetail(0, 1, TRUE, << 1 >>, NULL), EventDetail(0, 2, TRUE, << 2 >>, 4), EventDetail(1, 2, TRUE, << 7 >>, 1), EventDetail(0, 3, TRUE, << >>, NULL) >> }

InitForwarding ==
    /\ InitEvaluation({ << >> })
    /\ mode = SCRIPT_ENGINE_USER_MODE
    /\ peer = Context(FALSE, [ id |-> 2, clobbered |-> FALSE ])
    /\ g_OutputSources \in { OutputSources, OutputSourcesWithSameTag }
    /\ g_EventTrace \in EventTraces
    /\ is_true = FALSE
    /\ Written = << >>
    /\ fwd = NoForwarding

NextForwarding ==
    \/ OpenOutputSource
    \/ CloseOutputSource
    \/ WriteToFile
    \/ PerformEventForwarding
    \/ CheckAndPerformEventForwarding

SpecForwarding == InitForwarding /\ [][NextForwarding]_vars
\* ------------------------------------------------------------------------
\* Properties
\* ------------------------------------------------------------------------

\* The outcomes the specification's error taxonomy names.  The executor is a
\* VOID function: the only outcomes a call has are "Returned" and "Trap".
TypedErrors == { "MalformedBytecode", "IndexOutOfRange", "InvalidRegister", "InvalidDestination", "InvalidAddress", "DivideByZero", "UnsupportedOperation" }

\* The slot a valid destination symbol names, as it is now.
SlotOf(s) == IF s.Type = SYMBOL_ID_TYPE THEN g_VariableList[ToNat(s.Value)] ELSE g_TempList[ToNat(s.Value)]

BanksUnchanged == g_TempList = last.preTemp /\ g_VariableList = last.preVar

\* The call's records of the output sink (ScriptEngineFunctionPrint, and the
\* diagnostic record of FUNC_MOV).
SinkCalls == { i \in (last.preOutput + 1)..Len(Output) : Output[i].fn \in { "ScriptEngineFunctionPrint", "LogInfo" } \/ Output[i].text = "Result is %llx\n" }

\* b OP a as mathematics on 64 bits: a shift by 64 or more leaves no bit.
MathBinary(f, b, a) ==
    CASE f = FUNC_OR  -> WOr(b, a)
      [] f = FUNC_XOR -> WXor(b, a)
      [] f = FUNC_AND -> WAnd(b, a)
      [] f = FUNC_ASR -> IF ShiftDefined(a) THEN WShr(b, ToNat(a)) ELSE Zero
      [] f = FUNC_ASL -> IF ShiftDefined(a) THEN WShl(b, ToNat(a)) ELSE Zero
      [] f = FUNC_ADD -> WAdd(b, a)
      [] f = FUNC_SUB -> WSub(b, a)
      [] f = FUNC_MUL -> WMul(b, a)
      [] f = FUNC_DIV -> WDiv(b, a)
      [] f = FUNC_MOD -> WMod(b, a)

\* The same on the model's integers, for operands and results that fit them.
SmallBinary(f, b, a, r) ==
    CASE f = FUNC_ADD -> r = b + a
      [] f = FUNC_SUB -> b >= a => r = b - a
      [] f = FUNC_MUL -> (a < 32768 /\ b < 32768) => r = b * a
      [] f = FUNC_DIV -> r = b \div a
      [] f = FUNC_MOD -> r = b % a
      [] f = FUNC_ASR -> a < 31 => r = b \div Pow2(a)
      [] f = FUNC_ASL -> (a < 15 /\ b < 32768) => r = b * Pow2(a)
      [] OTHER -> TRUE

\* A binary instruction ran to its end and stored into a slot of a bank.
BinaryStored ==
    /\ last.ran /\ last.stored /\ ~last.wild
    /\ last.Operator.Value \in BinaryOps
    /\ ValidDestination(last.Des)

BinaryResultIsSrc1OpSrc0 ==
    /\ last.DesVal = MathBinary(last.Operator.Value, last.SrcVal1, last.SrcVal0)
    /\ SlotOf(last.Des) = last.DesVal
    /\ (IsSmall(last.SrcVal0) /\ IsSmall(last.SrcVal1) /\ IsSmall(last.DesVal) /\ ToNat(last.SrcVal0) + ToNat(last.SrcVal1) < 1073741824)
          => SmallBinary(last.Operator.Value, ToNat(last.SrcVal1), ToNat(last.SrcVal0), ToNat(last.DesVal))
    /\ (last.Operator.Value = FUNC_SUB /\ last.SrcVal0 = U64(5) /\ last.SrcVal1 = U64(10)) => SlotOf(last.Des) = U64(5)

\* C1 (as stated): after every binary instruction (OR, XOR, AND, ASR, ASL,
\* ADD, SUB, MUL, DIV and MOD with a non-zero divisor) with Src0 = a and
\* Src1 = b the destination slot holds (b OP a) modulo 2^64.
C1_Original == BinaryStored => BinaryResultIsSrc1OpSrc0

\* C1 (amended): the same, for ASR and ASL only when the shift count a is
\* below 64; SUB with Src0 = 5 and Src1 = 10 stores 5.
C1_BinaryResult ==
    (BinaryStored /\ (last.Operator.Value \in { FUNC_ASR, FUNC_ASL } => ShiftDefined(last.SrcVal0)))
        => BinaryResultIsSrc1OpSrc0

\* A SUB whose result differs from that of the exchanged operands was stored.
C1_Witness ==
    /\ BinaryStored
    /\ last.Operator.Value = FUNC_SUB
    /\ last.SrcVal0 = U64(5) /\ last.SrcVal1 = U64(10)
    /\ SlotOf(last.Des) = U64(5)

\* C2: a DIV or MOD whose divisor Src0 resolves to 0 ends in the
\* DivideByZero error, writes no slot and never reaches a trap.
C2_DivideByZero ==
    (last.ran /\ last.resolved1 /\ last.Operator.Value \in { FUNC_DIV, FUNC_MOD } /\ last.SrcVal0 = Zero)
        => (outcome = "DivideByZero" /\ BanksUnchanged)

\* C3: reading or writing a script variable or temporary whose index is 32
\* or more fails with IndexOutOfRange and touches no memory outside the bank.
C3_IndexOutOfRange ==
    (last.ran /\ (BadIndex(last.Src0) \/ BadIndex(last.Src1) \/ (last.computed /\ BadIndex(last.Des))))
        => (outcome = "IndexOutOfRange" /\ ~last.wild /\ BanksUnchanged /\ GuestRegs = last.preRegs)

\* C4: an instruction whose destination is a numeric literal, a register or
\* a pseudo register fails with InvalidDestination, and changes neither bank
\* nor the register snapshot.
C4_InvalidDestination ==
    (last.ran /\ last.computed /\ last.Des.Type \in { SYMBOL_NUM_TYPE, SYMBOL_REGISTER_TYPE, SYMBOL_PSEUDO_REG_TYPE })
        => (outcome = "InvalidDestination" /\ BanksUnchanged /\ GuestRegs = last.preRegs)

\* SetValue was called on a slot of a bank and returned.
StoredInBank == last.ran /\ last.stored /\ ValidDestination(last.Des)

\* C5: after SetValue on a script variable or temporary with an index in
\* 0..31 and value v, GetValue of a symbol of the same type and index returns
\* v, and every other slot of both banks is unchanged.
C5_WriteThenRead ==
    StoredInBank =>
        /\ GetValue(GuestRegs, g_TempList, g_VariableList, Sym(last.Des.Type, last.Des.Value)) = { Ret(last.DesVal) }
        /\ \A i \in 0..(MAX_VAR_COUNT - 1) :
              (last.Des.Type = SYMBOL_ID_TYPE /\ i = ToNat(last.Des.Value)) \/ g_VariableList[i] = last.preVar[i]
        /\ \A i \in 0..(MAX_TEMP_COUNT - 1) :
              (last.Des.Type = SYMBOL_TEMP_TYPE /\ i = ToNat(last.Des.Value)) \/ g_TempList[i] = last.preTemp[i]

\* A value other than the slot's old one was written to slot 31 of a bank
\* whose slot 0 holds another value.
C5_Witness ==
    /\ StoredInBank
    /\ last.Des.Value = U64(31)
    /\ last.DesVal # Zero
    /\ SlotOf(last.Des) = last.DesVal

\* C6: resolving a register symbol whose id is none of the 16 registers, or
\* a pseudo register symbol whose id is not recognized, fails with
\* InvalidRegister.
C6_InvalidRegister ==
    (last.ran /\ (BadRegister(last.Src0) \/ BadRegister(last.Src1)))
        => (outcome = "InvalidRegister" /\ ~last.resolved0)

\* C7: when the symbol at the cursor is not an operator the call fails with
\* MalformedBytecode before any operand is resolved: no slot is written and
\* the output sink is not called.
C7_ExpectingOperator ==
    (last.ran /\ last.Operator.Type # SYMBOL_SEMANTIC_RULE_TYPE)
        => (outcome = "MalformedBytecode" /\ ~last.resolved0 /\ BanksUnchanged /\ SinkCalls = { })

\* C8: every symbol fetch of a call reads an index below the length of the
\* code buffer; a call whose operands would lie beyond the end fails with
\* MalformedBytecode instead.
C8_FetchInsideBuffer ==
    last.ran => (last.start + last.fetches <= Len(CodeBuffer) \/ outcome = "MalformedBytecode")

\* C9: once an instruction of an evaluation has failed, the failure is
\* reported to the driver and no later instruction of the evaluation is
\* executed: no call of the executor runs after a failed call, so no slot is
\* written and no sink call made after it.
C9_StopsAtFailure == ~(last.ran /\ last.afterFailure)

\* C10: STR, WSTR and SIZEOF report UnsupportedOperation, write no slot and
\* leave the cursor at the symbol after the operator's operands.
C10_Unsupported ==
    (last.ran /\ last.Operator.Type = SYMBOL_SEMANTIC_RULE_TYPE /\ last.Operator.Value \in UnhandledOps)
        => (outcome = "UnsupportedOperation" /\ BanksUnchanged)

\* C11: a memory-read instruction (POI, DB, DW, DQ, HI, LOW) whose Src0
\* value is not a mapped address fails with the recoverable InvalidAddress
\* outcome and writes no slot; the address is never dereferenced blindly.
C11_InvalidAddress ==
    (last.ran /\ last.resolved0 /\ last.Operator.Value \in MemoryReadOps /\ last.SrcVal0 # MappedAddress)
        => (outcome = "InvalidAddress" /\ BanksUnchanged)

\* The register of the snapshot a register id names.
SnapshotValue(Regs, id) ==
    CASE id = REGISTER_RAX -> Regs.rax [] id = REGISTER_RCX -> Regs.rcx [] id = REGISTER_RDX -> Regs.rdx [] id = REGISTER_RBX -> Regs.rbx
      [] id = REGISTER_RSP -> Regs.rsp [] id = REGISTER_RBP -> Regs.rbp [] id = REGISTER_RSI -> Regs.rsi [] id = REGISTER_RDI -> Regs.rdi
      [] id = REGISTER_R8 -> Regs.r8 [] id = REGISTER_R9 -> Regs.r9 [] id = REGISTER_R10 -> Regs.r10 [] id = REGISTER_R11 -> Regs.r11
      [] id = REGISTER_R12 -> Regs.r12 [] id = REGISTER_R13 -> Regs.r13 [] id = REGISTER_R14 -> Regs.r14 [] id = REGISTER_R15 -> Regs.r15

\* The last call executed a PRINT instruction whose operand is one of the 16
\* registers.
PrintedRegister ==
    /\ last.ran
    /\ last.Operator = Op(FUNC_PRINT)
    /\ last.Src0.Type = SYMBOL_REGISTER_TYPE /\ last.Src0.Value \in RegisterIds

MovThenAdd ==
    /\ Len(CodeBuffer) = 7
    /\ CodeBuffer[1] = Op(FUNC_MOV) /\ CodeBuffer[2].Type = SYMBOL_NUM_TYPE /\ CodeBuffer[3] = Var(0)
    /\ CodeBuffer[4] = Op(FUNC_ADD) /\ CodeBuffer[5] = Var(0) /\ CodeBuffer[6].Type = SYMBOL_NUM_TYPE /\ CodeBuffer[7] = Tmp(0)

\* C13: driving [MOV, Num(c1), Var(0), ADD, Var(0), Num(c2), Temp(0)] from
\* cursor 0, the first call leaves Var[0] = c1 and the cursor at 3, and the
\* second leaves Temp[0] = (c1 + c2) mod 2^64 (10 for 7 and 3), Var[0] = c1
\* and the cursor at 7, the length of the buffer.
C13_MovThenAdd ==
    LET c1 == CodeBuffer[2].Value
        c2 == CodeBuffer[6].Value
    IN  /\ (MovThenAdd /\ last.count = 1) => (outcome = "Returned" /\ g_VariableList[0] = c1 /\ Indx = 3)
        /\ (MovThenAdd /\ last.count = 2) =>
              /\ outcome = "Returned"
              /\ g_TempList[0] = WAdd(c1, c2)
              /\ (IsSmall(c1) /\ IsSmall(c2)) => (IsSmall(g_TempList[0]) /\ ToNat(g_TempList[0]) = ToNat(c1) + ToNat(c2))
              /\ (c1 = U64(7) /\ c2 = U64(3)) => g_TempList[0] = U64(10)
              /\ g_VariableList[0] = c1
              /\ Indx = 7 /\ Indx = Len(CodeBuffer)

\* Both calls were made with c1 = 2^64 - 1 and c2 = 3: Temp[0] holds 2.
C13_Witness ==
    /\ MovThenAdd
    /\ last.count = 2
    /\ CodeBuffer[2].Value = AllOnes /\ CodeBuffer[6].Value = U64(3)
    /\ g_TempList[0] = U64(2)
    /\ Indx = 7

\* The calls of the output sink among the records of an evaluation, in
\* order: what was called and with which value.
SinkSequence(records) ==
    LET IsSinkCall(e) == e.fn \in { "ScriptEngineFunctionPrint", "LogInfo" } \/ e.text = "Result is %llx\n"
        sink == SelectSeq(records, IsSinkCall)
    IN  [ i \in 1..Len(sink) |-> << sink[i].fn, sink[i].Value >> ]

\* Two evaluations of the code buffer have made the same number of calls, and
\* no store of one landed in the banks of the other.
SideBySide ==
    /\ peer.live
    /\ ~self.clobbered /\ ~peer.self.clobbered
    /\ last.count = peer.last.count

\* C14: two runs of the same code buffer, stepped side by side from freshly
\* reset banks against identical register snapshots and the same environment,
\* have after every step identical cursors, identical contents of both banks
\* and an identical sequence of output sink calls.
C14_Determinism ==
    SideBySide =>
        /\ Indx = peer.Indx
        /\ g_TempList = peer.TempList
        /\ g_VariableList = peer.VariableList
        /\ SinkSequence(Output) = SinkSequence(peer.Output)

\* The number of symbols that follow an operator: its operands and its
\* destination.
Arity(f) ==
    CASE f \in BinaryOps -> 3
      [] f \in MemoryReadOps \cup UnaryOps -> 2
      [] f \in UnhandledOps \cup { FUNC_PRINT } -> 1
      [] OTHER -> 0

RECURSIVE WellFormedFrom(_)
WellFormedFrom(i) ==
    IF i > Len(CodeBuffer) THEN TRUE
    ELSE /\ CodeBuffer[i].Type = SYMBOL_SEMANTIC_RULE_TYPE
         /\ Arity(CodeBuffer[i].Value) > 0
         /\ i + Arity(CodeBuffer[i].Value) <= Len(CodeBuffer)
         /\ \A k \in 1..Arity(CodeBuffer[i].Value) : CodeBuffer[i + k].Type # SYMBOL_SEMANTIC_RULE_TYPE
         /\ WellFormedFrom(i + Arity(CodeBuffer[i].Value) + 1)

\* Every operator of the code buffer is followed by exactly its operands.
WellFormed == WellFormedFrom(1)

\* The driver's loop has stopped: the cursor is not inside the buffer, or a
\* call trapped.
LoopStopped == ~DriverContinues

C16_Frame == [][GuestRegs' = GuestRegs /\ CodeBuffer' = CodeBuffer]_vars

\* C17: two evaluation instances on different threads, each with its own
\* banks, cursor and register snapshot, do not interfere under any
\* interleaving of their calls: a call of the running instance leaves the
\* other instance's banks, cursor, snapshot and output as they are, so each
\* instance ends as it does when run alone.
C17_NoInterference == [][self' = self => peer' = peer]_vars

\* ------------------------------------------------------------------------
\* Event forwarding
\* ------------------------------------------------------------------------

\* A transfer that carried the caller's message in full.
Delivered(t, Message, MessageLength) ==
    t.text = Message /\ t.requested = MessageLength /\ t.sent = MessageLength

\* Every transfer of the last call carried the caller's message in full, and
\* there was at least one.
MessageForwarded ==
    Written # << >> /\ \A k \in 1..Len(Written) : Delivered(Written[k], fwd.Message, fwd.MessageLength)

\* A transfer of the last call did not take every byte it was given.
SendFailed == \E k \in 1..Len(Written) : Written[k].sent # Written[k].requested

\* C18: every call of ForwardingWriteToFile writes exactly the caller's
\* Message of MessageLength bytes to the file, and returns TRUE only if the
\* write succeeded with MessageLength bytes written, FALSE otherwise.
C18_WriteToFile ==
    fwd.fn = "ForwardingWriteToFile" =>
        /\ Len(Written) = 1
        /\ Written[1].Handle = fwd.FileHandle
        /\ Written[1].text = fwd.Message
        /\ Written[1].requested = fwd.MessageLength
        /\ fwd.result = (Written[1].sent = fwd.MessageLength)

\* C19: ForwardingPerformEventForwarding returns TRUE when the message was
\* delivered to the event's opened output sources, also when every tag slot
\* of the event is in use, and FALSE when a send failed.
C19_PerformEventForwarding ==
    fwd.fn = "ForwardingPerformEventForwarding" =>
        /\ MessageForwarded => fwd.result = TRUE
        /\ SendFailed => fwd.result = FALSE

\* C20: ForwardingCheckAndPerformEventForwarding returns TRUE exactly when
\* the event trace has an event with HasCustomOutput and the tag
\* OperationCode and the message was forwarded to that event's sources, and
\* FALSE when forwarding failed.
C20_CheckAndPerformEventForwarding ==
    fwd.fn = "ForwardingCheckAndPerformEventForwarding" =>
        /\ fwd.result = ((\E k \in 1..Len(g_EventTrace) : g_EventTrace[k].HasCustomOutput /\ g_EventTrace[k].Tag = [ high |-> 0, low |-> fwd.OperationCode ]) /\ MessageForwarded)
        /\ SendFailed => fwd.result = FALSE

\* ------------------------------------------------------------------------
\* Cursor, MOV, NEG, shifts, DW, HI and LOW
\* ------------------------------------------------------------------------

\* The last call returned and is none of the calls the specification calls
\* a failure.
SuccessfulCall == last.ran /\ outcome = "Returned" /\ ~FailedCall

\* The cursor i is at an instruction boundary: an Operator symbol is there,
\* or it is the length of the buffer.
InstructionBoundary(i) ==
    i = Len(CodeBuffer) \/ (i < Len(CodeBuffer) /\ CodeBuffer[i + 1].Type = SYMBOL_SEMANTIC_RULE_TYPE)

\* The symbols of an instruction: 4 for the binary operators, 3 for POI, DB,
\* DW, DQ, HI, LOW, NOT, NEG and MOV, 2 for PRINT.
Shape(f) ==
    CASE f \in BinaryOps -> 4
      [] f \in { FUNC_POI, FUNC_DB, FUNC_DW, FUNC_DQ, FUNC_HI, FUNC_LOW, FUNC_NOT, FUNC_NEG, FUNC_MOV } -> 3
      [] f = FUNC_PRINT -> 2

\* C21: after every successful call the cursor has advanced by exactly the
\* shape of the decoded operator (4, 3 or 2 symbols), and in a well-formed
\* buffer a call that began at an instruction boundary leaves the cursor at
\* an instruction boundary.
C21_CursorAdvance ==
    SuccessfulCall =>
        /\ Indx = last.start + Shape(last.Operator.Value)
        /\ (WellFormed /\ InstructionBoundary(last.start)) => InstructionBoundary(Indx)

\* The second call of a well-formed buffer, a PRINT, succeeded and left the
\* cursor at the operator of a third instruction.
C21_Witness ==
    /\ SuccessfulCall
    /\ WellFormed
    /\ last.count = 2
    /\ last.Operator.Value = FUNC_PRINT
    /\ Indx = last.start + 2
    /\ Indx < Len(CodeBuffer)
    /\ InstructionBoundary(Indx)

\* The last call was a MOV that succeeded.
MovCall == SuccessfulCall /\ last.Operator.Value = FUNC_MOV /\ last.stored

\* The breakpoint traps the call raised.
BreakPoints == { i \in (last.preOutput + 1)..Len(Output) : Output[i].fn = "DbgBreakPoint" }

\* C22: MOV stores Src0's value in the destination; it emits a diagnostic
\* record of that value through the output sink exactly once when the
\* destination is a script variable, and no record and no breakpoint trap
\* when it is a temporary.
C22_MovDiagnostic ==
    MovCall =>
        /\ SlotOf(last.Des) = last.SrcVal0
        /\ \A i \in SinkCalls : Output[i].Value = last.SrcVal0
        /\ last.Des.Type = SYMBOL_ID_TYPE => Cardinality(SinkCalls) = 1
        /\ last.Des.Type = SYMBOL_TEMP_TYPE => (SinkCalls = { } /\ BreakPoints = { })

\* A MOV of 7 into a script variable in kernel mode: the slot holds 7 and the
\* call raised the breakpoint trap and emitted the record once.
C22_Witness ==
    /\ MovCall
    /\ mode = SCRIPT_ENGINE_KERNEL_MODE
    /\ last.Des.Type = SYMBOL_ID_TYPE
    /\ SlotOf(last.Des) = U64(7)
    /\ Cardinality(SinkCalls) = 1
    /\ Cardinality(BreakPoints) = 1

\* The last call was a NEG that returned and stored into a slot of a bank.
NegStored == SuccessfulCall /\ last.Operator.Value = FUNC_NEG /\ last.stored

\* The last call was a NEG that stopped in the negation.
NegTrapped == last.ran /\ last.Operator.Value = FUNC_NEG /\ last.resolved0 /\ outcome = "Trap" /\ ~BadIndex(last.Des)

\* The code buffer begins with a NEG of a literal or a register followed by
\* a NEG of its destination, and the second of them was the last call.
NegTwice ==
    /\ NegStored
    /\ last.count = 2
    /\ last.start = 3
    /\ CodeBuffer[1] = Op(FUNC_NEG)
    /\ CodeBuffer[2].Type \in { SYMBOL_NUM_TYPE, SYMBOL_REGISTER_TYPE }
    /\ CodeBuffer[5] = CodeBuffer[3]

\* The value of the literal or register the first NEG negates.
NegTwiceOperand ==
    IF CodeBuffer[2].Type = SYMBOL_NUM_TYPE THEN CodeBuffer[2].Value ELSE SnapshotValue(GuestRegs, CodeBuffer[2].Value)

\* The destination holds (2^64 - x) mod 2^64: it is the one word that added
\* to x gives 0 modulo 2^64; all bits set for 1 and 0 for 0; and two NEGs
\* give x back.
NegIsTwosComplement ==
    /\ NegStored =>
        /\ SlotOf(last.Des) = last.DesVal
        /\ WAdd(last.DesVal, last.SrcVal0) = Zero
        /\ last.SrcVal0 = One => last.DesVal = AllOnes
        /\ last.SrcVal0 = Zero => last.DesVal = Zero
    /\ NegTwice => SlotOf(last.Des) = NegTwiceOperand

ShiftStored ==
    /\ SuccessfulCall /\ last.stored
    /\ last.Operator.Value \in { FUNC_ASR, FUNC_ASL }
    /\ ShiftDefined(last.SrcVal0)

\* The value of a literal or register symbol of the code buffer.
OperandValue(s) == IF s.Type = SYMBOL_NUM_TYPE THEN s.Value ELSE SnapshotValue(GuestRegs, s.Value)

\* r is floor(b / 2^k) with zero fill: bit i of r is bit i + k of b, and 0
\* where b has no such bit.
LogicalRight(r, b, k) == \A i \in 0..63 : Bit(r, i) = IF i + k <= 63 THEN Bit(b, i + k) ELSE 0

\* r is (b * 2^k) mod 2^64: bit i of r is bit i - k of b, and 0 below k.
LogicalLeft(r, b, k) == \A i \in 0..63 : Bit(r, i) = IF i >= k THEN Bit(b, i - k) ELSE 0

\* C24: for shift counts 0..63 ASR stores floor(Src1 / 2^Src0) with zero
\* fill and ASL stores (Src1 * 2^Src0) mod 2^64; the shifted value is the
\* second-fetched operand and the count the first-fetched one.
C24_LogicalShift ==
    ShiftStored =>
        /\ SlotOf(last.Des) = last.DesVal
        /\ last.Src0 = CodeBuffer[last.start + 2] /\ last.Src1 = CodeBuffer[last.start + 3]
        /\ last.Src0.Type \in { SYMBOL_NUM_TYPE, SYMBOL_REGISTER_TYPE } => last.SrcVal0 = OperandValue(last.Src0)
        /\ last.Src1.Type \in { SYMBOL_NUM_TYPE, SYMBOL_REGISTER_TYPE } => last.SrcVal1 = OperandValue(last.Src1)
        /\ last.Operator.Value = FUNC_ASR => LogicalRight(last.DesVal, last.SrcVal1, ToNat(last.SrcVal0))
        /\ last.Operator.Value = FUNC_ASL => LogicalLeft(last.DesVal, last.SrcVal1, ToNat(last.SrcVal0))
        /\ (last.Operator.Value = FUNC_ASR /\ ToNat(last.SrcVal0) > 0) => Bit(last.DesVal, 63) = 0

\* An ASR by 1 of the register r15, whose top bit alone is set, stored 2^62.
C24_Witness ==
    /\ ShiftStored
    /\ last.Operator.Value = FUNC_ASR
    /\ last.SrcVal0 = One
    /\ last.SrcVal1 = TopBit
    /\ Bit(SlotOf(last.Des), 62) = 1
    /\ Bit(SlotOf(last.Des), 63) = 0

\* The last call was a memory read by the operator f that succeeded.
MemoryRead(f) == SuccessfulCall /\ last.stored /\ last.Operator.Value = f

\* The 64-bit value at a mapped address.
ValueAt(Address) == IF Address = MappedAddress THEN MappedQword ELSE SecondQword

\* r is bits from..from + n - 1 of v, zero-extended to 64 bits.
BitField(r, v, from, n) == \A i \in 0..63 : Bit(r, i) = IF i < n THEN Bit(v, from + i) ELSE 0

\* C25: DW stores what DB stores: the low 8 bits of the 64-bit value read at
\* the address, zero-extended to 64 bits, not its low 32 bits.
C25_DwIsDb ==
    (MemoryRead(FUNC_DB) \/ MemoryRead(FUNC_DW)) =>
        /\ last.SrcVal0 \in { MappedAddress, SecondAddress }
        /\ SlotOf(last.Des) = last.DesVal
        /\ BitField(last.DesVal, ValueAt(last.SrcVal0), 0, 8)
        /\ ~BitField(last.DesVal, ValueAt(last.SrcVal0), 0, 32)

\* A DW of the address in rbp, where 0xFFEEDDCCBBAA9980 is stored, stored 0x80.
C25_Witness ==
    /\ MemoryRead(FUNC_DW)
    /\ last.SrcVal0 = SecondAddress
    /\ SlotOf(last.Des) = U64(128)

\* C26: HI stores bits 16..31 of the 64-bit value read at the address,
\* zero-extended to 64 bits, not bits 48..63; LOW stores bits 0..15.
C26_HiLow ==
    /\ MemoryRead(FUNC_HI) =>
        /\ last.SrcVal0 \in { MappedAddress, SecondAddress }
        /\ SlotOf(last.Des) = last.DesVal
        /\ BitField(last.DesVal, ValueAt(last.SrcVal0), 16, 16)
        /\ ~BitField(last.DesVal, ValueAt(last.SrcVal0), 48, 16)
    /\ MemoryRead(FUNC_LOW) =>
        /\ last.SrcVal0 \in { MappedAddress, SecondAddress }
        /\ SlotOf(last.Des) = last.DesVal
        /\ BitField(last.DesVal, ValueAt(last.SrcVal0), 0, 16)

\* A HI of the address in rbp, where 0xFFEEDDCCBBAA9980 is stored, stored
\* 0xBBAA.
C26_Witness ==
    /\ MemoryRead(FUNC_HI)
    /\ last.SrcVal0 = SecondAddress
    /\ SlotOf(last.Des) = << 170, 187, 0, 0, 0, 0, 0, 0 >>

\* ------------------------------------------------------------------------
\* Output sources
\* ------------------------------------------------------------------------

\* The last call was an open, or a close, of a source that was in state
\* before.
Opened(before) == fwd.fn = "ForwardingOpenOutputSource" /\ fwd.before = before

Closed(before) == fwd.fn = "ForwardingCloseOutputSource" /\ fwd.before = before

\* The state of the source of the last open or close, and the status returned.
Left(State, status) == g_OutputSources[fwd.source].State = State /\ fwd.result = status

\* C27: a source's state only moves NOT_OPENED -> OPENED -> CLOSED.  Open
\* and close of a closed source return ALREADY_CLOSED and leave it closed,
\* open of an opened source returns ALREADY_OPENED and leaves it opened,
\* close of a source never opened returns UNKNOWN_ERROR and leaves it not
\* opened.
C27_Lifecycle ==
    /\ [][\A k \in 1..Len(g_OutputSources) :
            \/ g_OutputSources'[k].State = g_OutputSources[k].State
            \/ g_OutputSources[k].State = EVENT_FORWARDING_STATE_NOT_OPENED /\ g_OutputSources'[k].State = EVENT_FORWARDING_STATE_OPENED
            \/ g_OutputSources[k].State = EVENT_FORWARDING_STATE_OPENED /\ g_OutputSources'[k].State = EVENT_FORWARDING_CLOSED]_vars
    /\ [](Opened(EVENT_FORWARDING_CLOSED) => Left(EVENT_FORWARDING_CLOSED, DEBUGGER_OUTPUT_SOURCE_STATUS_ALREADY_CLOSED))
    /\ [](Closed(EVENT_FORWARDING_CLOSED) => Left(EVENT_FORWARDING_CLOSED, DEBUGGER_OUTPUT_SOURCE_STATUS_ALREADY_CLOSED))
    /\ [](Opened(EVENT_FORWARDING_STATE_OPENED) => Left(EVENT_FORWARDING_STATE_OPENED, DEBUGGER_OUTPUT_SOURCE_STATUS_ALREADY_OPENED))
    /\ [](Closed(EVENT_FORWARDING_STATE_NOT_OPENED) => Left(EVENT_FORWARDING_STATE_NOT_OPENED, DEBUGGER_OUTPUT_SOURCE_STATUS_UNKNOWN_ERROR))

\* A source that was opened and closed was opened again: it stayed closed.
C27_Witness ==
    /\ Opened(EVENT_FORWARDING_CLOSED)
    /\ Left(EVENT_FORWARDING_CLOSED, DEBUGGER_OUTPUT_SOURCE_STATUS_ALREADY_CLOSED)
    /\ \E k \in 1..Len(g_OutputSources) : g_OutputSources[k].State = EVENT_FORWARDING_STATE_OPENED

\* C28: an open that returns a status other than SUCCESSFULLY_OPENED, and a
\* close that returns a status other than SUCCESSFULLY_CLOSED, leave the
\* State of the source as it was before the call, also for a source whose
\* Type is none of file, named pipe, tcp and module.
C28_StateChangesOnSuccessOnly ==
    /\ (fwd.fn = "ForwardingOpenOutputSource" /\ fwd.result # DEBUGGER_OUTPUT_SOURCE_STATUS_SUCCESSFULLY_OPENED)
          => g_OutputSources[fwd.source].State = fwd.before
    /\ (fwd.fn = "ForwardingCloseOutputSource" /\ fwd.result # DEBUGGER_OUTPUT_SOURCE_STATUS_SUCCESSFULLY_CLOSED)
          => g_OutputSources[fwd.source].State = fwd.before

\* The event of the last call of ForwardingPerformEventForwarding.
ForwardedEvent == g_EventTrace[fwd.EventDetail]

\* The tag slots of the event that precede its first NULL tag.
ListedSlots == { i \in 1..DebuggerOutputSourceMaximumRemoteSourceForSingleEvent : \A j \in 1..i : ForwardedEvent.OutputSourceTags[j] # NULL }

\* The slots that list the tag of source k, and the transfers source k received.
SlotsOf(k) == { i \in ListedSlots : ForwardedEvent.OutputSourceTags[i] = g_OutputSources[k].OutputUniqueTag }

TransfersTo(k) == { n \in 1..Len(Written) : Written[n].Handle = g_OutputSources[k].Handle }

\* C29: ForwardingPerformEventForwarding delivers only to sources that are
\* OPENED and whose tag the event lists before its first NULL tag; of the
\* sources with one tag only the first of g_OutputSources receives, and a
\* listed tag causes at most one delivery.
C29_DeliversToListedOpened ==
    fwd.fn = "ForwardingPerformEventForwarding" =>
        /\ \A n \in 1..Len(Written) : \E k \in 1..Len(g_OutputSources) : n \in TransfersTo(k)
        /\ \A k \in 1..Len(g_OutputSources) :
            /\ TransfersTo(k) # { } =>
                /\ g_OutputSources[k].State = EVENT_FORWARDING_STATE_OPENED
                /\ SlotsOf(k) # { }
                /\ \A j \in 1..(k - 1) : g_OutputSources[j].OutputUniqueTag # g_OutputSources[k].OutputUniqueTag
            /\ Cardinality(TransfersTo(k)) <= Cardinality(SlotsOf(k))

\* Two opened named pipes have the tag the event lists: the first of them
\* received the one transfer of the call.
C29_Witness ==
    /\ fwd.fn = "ForwardingPerformEventForwarding"
    /\ g_OutputSources[1].State = EVENT_FORWARDING_STATE_OPENED
    /\ g_OutputSources[3].State = EVENT_FORWARDING_STATE_OPENED
    /\ g_OutputSources[3].OutputUniqueTag = g_OutputSources[1].OutputUniqueTag
    /\ Cardinality(TransfersTo(1)) = 1
    /\ TransfersTo(3) = { }

====
